---- MODULE Spec2Model ----
(***************************************************************************)
(* The agent transition engine of rataura2: the Transition store, the      *)
(* NetworkX graph AgentGraphManager builds from it, the Business Rules     *)
(* TransitionController (both copies of the adapter), the event handlers   *)
(* that write the context, and AgentOrchestrator.check_and_execute_        *)
(* transition, sequentially (Spec) and as interleaved threads (SpecConc).  *)
(*                                                                         *)
(* Strings are sequences of one-letter tokens, so that "contains" and      *)
(* lower() are computed and not assumed: "c" stands for the word combat,   *)
(* "m" for market, "h" for high priority, "C" for COMBAT and "x" for any   *)
(* other text.  None is 0 for agent ids (Python tests them with `not`).    *)
(***************************************************************************)
EXTENDS Integers, Sequences, FiniteSets, TLC

VARIABLES
    Transition,               \* rows of the Transition table, row i has id i
    BusinessRulesTransition,  \* transition_id -> rules_definition (the rows that exist)
    graph,                    \* AgentGraphManager.graph: its edges, in insertion order
    context,                  \* EventManager.context, the dict every check reads
    controller,               \* ConversationController: current_agent_id, current_agent
    emitted,                  \* history: the events execute_transition had processed
    call,                     \* history: the last completed call, its inputs and result
    steps,                    \* number of calls made so far
    threads,                  \* per thread: position inside check_and_execute_transition
    running,                  \* AgentOrchestrator.running
    data,                     \* SessionContext.data: key -> ContextValue
    now,                      \* the clock time.time() reads
    orchs,                    \* SessionManager: the orchestrators constructed so far
    registry,                 \* SessionManager.orchestrators: session id -> orchestrator
    mlock,                    \* SessionManager.lock: the thread holding it, or "free"
    Conversation,             \* rows of the Conversation table: id -> the row
    lock,                     \* AgentOrchestrator.lock: "free" or "held"
    transition_check_thread,  \* AgentOrchestrator.transition_check_thread, or None
    loops                     \* the threads start() has spawned, in spawn order

vars == <<Transition, BusinessRulesTransition, graph, context, controller,
          emitted, call, steps, threads, running, data, now, orchs, registry,
          mlock, Conversation, lock, transition_check_thread, loops>>

\* a specification about one component leaves the others as constructed
Lifecycle == <<lock, transition_check_thread, loops>>
Apart == <<data, now, orchs, registry, mlock, Conversation, Lifecycle>>

-----------------------------------------------------------------------------
(* Bounds of the model *)

MaxSteps == 3          \* calls made on one orchestrator
MaxEvents == 150       \* events ingested by one orchestrator in SpecEvents
NumTransitions == 3    \* rows of the Transition table

(* Program constants *)

EventHistoryCap == 100 \* events.py: context["events"][-100:]

-----------------------------------------------------------------------------
(* The store: agents *)

AgentIds == {1, 2, 3, 4}          \* rows of the Agent table
MemberIds == {1, 2, 3}            \* Conversation.agents of the conversation
InitialAgentId == 1               \* Conversation.initial_agent_id
None == 0
ConversationIds == {1}            \* rows of the Conversation table
MissingConversationId == 9

\* a Conversation row with its Conversation.agents (the association table)
ConversationRow(initial_agent_id, agents) ==
    [initial_agent_id |-> initial_agent_id, agents |-> agents]


AgentName(a) ==
    CASE a = 1 -> "general" [] a = 2 -> "combat" [] a = 3 -> "market"
      [] a = 4 -> "outsider" [] OTHER -> "unknown"

-----------------------------------------------------------------------------
(* Strings *)

Absent == <<"<absent>">>          \* the key is not in the dict
NotAString == <<"<int>">>         \* a JSON number where a string is expected
EmptyStr == <<>>

LowerChar(ch) == IF ch = "C" THEN "c" ELSE IF ch = "M" THEN "m" ELSE ch

lower(s) == [i \in DOMAIN s |-> LowerChar(s[i])]

\* Python's `p in s` on strings
StrIn(p, s) ==
    \E i \in 0..(Len(s) - Len(p)) : SubSeq(s, i + 1, i + Len(p)) = p

-----------------------------------------------------------------------------
(* Rule-sets: the rules_definition JSON of a BusinessRulesTransition row *)

CtxKeys == {"topic", "mood"}      \* keys rule actions write with set_context_value
NoValue == ""
NoUpdates == [k \in CtxKeys |-> NoValue]

Leaf(n, o, v) == [name |-> n, operator |-> o, value |-> v]
AllOf(cs) == [all |-> cs]
AnyOf(cs) == [any |-> cs]
Rule(c, a) == [conditions |-> c, actions |-> a]
ToAgent(a) == [name |-> "transition_to_agent", agent_id |-> a]
SetValue(k, v) == [name |-> "set_context_value", key |-> k, value |-> v]
LogTransition == [name |-> "log_transition"]

\* ConversationVariables.user_input: context.get("user_input", "")
user_input(ctx) == IF ctx.user_input = Absent THEN EmptyStr ELSE ctx.user_input

\* business_rules: one {name, operator, value} condition on a string variable
check_condition(leaf, ctx) ==
    LET v == user_input(ctx) IN
    CASE leaf.operator = "contains" -> StrIn(leaf.value, v)
      [] leaf.operator = "equal_to" -> v = leaf.value
      [] leaf.operator = "non_empty" -> v # EmptyStr
      [] OTHER -> FALSE

\* the variables of ConversationVariables the rule-sets here name, and the
\* operators of a string variable
KnownVariables == {"user_input"}
KnownOperators == {"contains", "equal_to", "non_empty"}

\* business_rules: a leaf that names a variable the variables class does not
\* define, or an operator its type does not have, raises AssertionError
condition_raises(leaf) ==
    leaf.name \notin KnownVariables \/ leaf.operator \notin KnownOperators

\* business_rules: a condition tree of all / any nodes over leaves
RECURSIVE check_conditions_recursively(_, _)
check_conditions_recursively(conditions, ctx) ==
    IF "all" \in DOMAIN conditions
    THEN \A i \in DOMAIN conditions.all :
            check_conditions_recursively(conditions.all[i], ctx)
    ELSE IF "any" \in DOMAIN conditions
    THEN \E i \in DOMAIN conditions.any :
            check_conditions_recursively(conditions.any[i], ctx)
    ELSE check_condition(conditions, ctx)

\* business_rules: the evaluation of a condition tree reaches a leaf that
\* raises; all stops at its first false member, any at its first true one
RECURSIVE conditions_raise(_, _)
conditions_raise(conditions, ctx) ==
    IF "all" \in DOMAIN conditions
    THEN \E i \in DOMAIN conditions.all :
            /\ conditions_raise(conditions.all[i], ctx)
            /\ \A j \in 1..(i - 1) :
                  /\ ~conditions_raise(conditions.all[j], ctx)
                  /\ check_conditions_recursively(conditions.all[j], ctx)
    ELSE IF "any" \in DOMAIN conditions
    THEN \E i \in DOMAIN conditions.any :
            /\ conditions_raise(conditions.any[i], ctx)
            /\ \A j \in 1..(i - 1) :
                  /\ ~conditions_raise(conditions.any[j], ctx)
                  /\ ~check_conditions_recursively(conditions.any[j], ctx)
    ELSE condition_raises(conditions)

\* business_rules.engine.run_all(..., stop_on_first_trigger=True) raises: a rule
\* whose conditions raise is reached before any rule triggers
RECURSIVE rules_raise(_, _, _)
rules_raise(rule_list, r, ctx) ==
    IF r > Len(rule_list) THEN FALSE
    ELSE IF conditions_raise(rule_list[r].conditions, ctx) THEN TRUE
    ELSE IF check_conditions_recursively(rule_list[r].conditions, ctx) THEN FALSE
    ELSE rules_raise(rule_list, r + 1, ctx)

\* TransitionController.__init__ / reset
NewController == [next_agent_id |-> None, context_updates |-> NoUpdates,
                  executed |-> <<>>]

\* TransitionController.set_next_agent_id
set_next_agent_id(ctrl, agent_id) == [ctrl EXCEPT !.next_agent_id = agent_id]

\* TransitionController.set_context_value
set_context_value(ctrl, key, value) ==
    [ctrl EXCEPT !.context_updates[key] = value]

\* TransitionActions: the method a rule action names, applied to the controller;
\* executed is the trace of the actions that ran
do_action(action, ctrl, tid, r, j) ==
    LET done == [ctrl EXCEPT !.executed =
                    Append(@, [transition |-> tid, rule |-> r, action |-> j])] IN
    CASE action.name = "transition_to_agent" ->
            set_next_agent_id(done, action.agent_id)
      [] action.name = "set_context_value" ->
            set_context_value(done, action.key, action.value)
      [] OTHER -> done

RECURSIVE do_actions(_, _, _, _, _)
do_actions(actions, j, ctrl, tid, r) ==
    IF j > Len(actions) THEN ctrl
    ELSE do_actions(actions, j + 1, do_action(actions[j], ctrl, tid, r, j), tid, r)

\* business_rules.engine.run_all: the rules in stored order, each rule's actions
\* when its condition tree holds
RECURSIVE run_all(_, _, _, _, _, _)
run_all(rule_list, r, ctx, ctrl, tid, stop_on_first_trigger) ==
    IF r > Len(rule_list) THEN ctrl
    ELSE IF check_conditions_recursively(rule_list[r].conditions, ctx)
    THEN LET after == do_actions(rule_list[r].actions, 1, ctrl, tid, r) IN
         IF stop_on_first_trigger THEN after
         ELSE run_all(rule_list, r + 1, ctx, after, tid, stop_on_first_trigger)
    ELSE run_all(rule_list, r + 1, ctx, ctrl, tid, stop_on_first_trigger)

\* the engine left to run every satisfied rule (stop_on_first_trigger=False)
RunRulesAll(rule_list, ctx, ctrl, tid) ==
    run_all(rule_list, 1, ctx, ctrl, tid, FALSE)

\* the call the adapter makes: run_all(..., stop_on_first_trigger=True)
RunRules(rule_list, ctx, ctrl, tid) == run_all(rule_list, 1, ctx, ctrl, tid, TRUE)

-----------------------------------------------------------------------------
(* The Transition store and its queries *)

Row(s, t, ct, cd, p) ==
    [source_agent_id |-> s, target_agent_id |-> t, condition_type |-> ct,
     condition_data |-> cd, priority |-> p]

NoData == [pattern |-> EmptyStr]
Pattern(p) == [pattern |-> p]

\* a row as the ORM object the queries return
Obj(rows, i) ==
    [id |-> i, source_agent_id |-> rows[i].source_agent_id,
     target_agent_id |-> rows[i].target_agent_id,
     condition_type |-> rows[i].condition_type,
     condition_data |-> rows[i].condition_data, priority |-> rows[i].priority]

\* db.query(Transition).all(): the rows in id order
RECURSIVE QueryAll(_, _)
QueryAll(rows, i) ==
    IF i > Len(rows) THEN <<>> ELSE <<Obj(rows, i)>> \o QueryAll(rows, i + 1)

\* sorted(seq, key=priority, reverse=True): Python's sort is stable, also reversed
RECURSIVE SortedByPriority(_)
SortedByPriority(seq) ==
    IF seq = <<>> THEN <<>>
    ELSE CHOOSE sorted \in
            { LET x == seq[Len(seq)]
                  k == Cardinality({i \in DOMAIN front :
                                       front[i].priority >= x.priority})
              IN SubSeq(front, 1, k) \o <<x>> \o SubSeq(front, k + 1, Len(front)) :
              front \in {SortedByPriority(SubSeq(seq, 1, Len(seq) - 1))} } : TRUE

-----------------------------------------------------------------------------
(* TransitionController of rataura2/transitions/business_rules_adapter.py *)

ResultKeys == {"next_agent_id", "context_updates"}
EmptyResult ==
    [keys |-> {}, next_agent_id |-> None, context_updates |-> NoUpdates,
     transition_id |-> None, executed |-> <<>>, raised |-> FALSE]

\* a loop that gives up after the transition at position i
ControllerLoopFirstOnly(transitions, i, rules_map, ctx, ctrl) ==
    IF i > Len(transitions) \/ transitions[i].id \notin DOMAIN rules_map
    THEN [EmptyResult EXCEPT !.executed = ctrl.executed]
    ELSE LET after == run_all(rules_map[transitions[i].id], 1, ctx, ctrl,
                              transitions[i].id, TRUE) IN
         IF after.next_agent_id # None
         THEN [keys |-> ResultKeys, next_agent_id |-> after.next_agent_id,
               context_updates |-> after.context_updates,
               transition_id |-> None, executed |-> after.executed,
               raised |-> FALSE]
         ELSE [EmptyResult EXCEPT !.executed = after.executed]

\* the loop of check_transitions over the sorted transitions, from position i
RECURSIVE ControllerLoop(_, _, _, _, _)
ControllerLoop(transitions, i, rules_map, ctx, ctrl) ==
    IF i > Len(transitions) THEN [EmptyResult EXCEPT !.executed = ctrl.executed]
    ELSE IF transitions[i].id \notin DOMAIN rules_map
    THEN ControllerLoop(transitions, i + 1, rules_map, ctx, ctrl)
    ELSE IF rules_raise(rules_map[transitions[i].id], 1, ctx)
    THEN [EmptyResult EXCEPT !.executed = ctrl.executed, !.raised = TRUE]
    ELSE LET after == RunRules(rules_map[transitions[i].id], ctx, ctrl,
                               transitions[i].id) IN
         IF after.next_agent_id # None
         THEN [keys |-> ResultKeys, next_agent_id |-> after.next_agent_id,
               context_updates |-> after.context_updates,
               transition_id |-> None, executed |-> after.executed,
               raised |-> FALSE]
         ELSE ControllerLoop(transitions, i + 1, rules_map, ctx, after)

\* TransitionController.check_transitions(agent_id, context)
ControllerCheckTransitions(rows, rules_map, agent_id, ctx) ==
    LET IsMine(t) == /\ t.source_agent_id = agent_id
                     /\ t.condition_type = "business_rules"
        transitions == SelectSeq(QueryAll(rows, 1), IsMine)
    IN IF transitions = <<>> THEN EmptyResult
       ELSE ControllerLoop(SortedByPriority(transitions), 1, rules_map, ctx,
                           NewController)

-----------------------------------------------------------------------------
(* TransitionController of clean_structure/.../business_rules_adapter.py *)

CleanResultKeys == {"transition_id", "next_agent_id"}

\* TransitionActions(agent_id) there: transition_to_agent is its only action, and
\* the engine raises on an action name the class does not define
NewCleanActions(target) ==
    [agent_id |-> target, triggered |-> FALSE, executed |-> <<>>, raised |-> FALSE]

RECURSIVE CleanDoActions(_, _, _, _, _)
CleanDoActions(actions, j, act, tid, r) ==
    IF j > Len(actions) \/ act.raised THEN act
    ELSE IF actions[j].name = "transition_to_agent"
    THEN CleanDoActions(actions, j + 1,
            [act EXCEPT !.triggered = TRUE, !.agent_id = actions[j].agent_id,
                        !.executed = Append(@, [transition |-> tid, rule |-> r,
                                                action |-> j])],
            tid, r)
    ELSE [act EXCEPT !.raised = TRUE]

\* run_all(..., stop_on_first_trigger=True) over the clean action class
RECURSIVE CleanRunRules(_, _, _, _, _)
CleanRunRules(rule_list, r, ctx, act, tid) ==
    IF r > Len(rule_list) THEN act
    ELSE IF check_conditions_recursively(rule_list[r].conditions, ctx)
    THEN CleanDoActions(rule_list[r].actions, 1, act, tid, r)
    ELSE CleanRunRules(rule_list, r + 1, ctx, act, tid)

\* TransitionController._check_business_rules_transition
CleanCheckBusinessRules(t, rules_map, ctx) ==
    IF t.id \notin DOMAIN rules_map THEN NewCleanActions(t.target_agent_id)
    ELSE CleanRunRules(rules_map[t.id], 1, ctx, NewCleanActions(t.target_agent_id),
                       t.id)

RECURSIVE CleanLoop(_, _, _, _)
CleanLoop(transitions, i, rules_map, ctx) ==
    IF i > Len(transitions) THEN EmptyResult
    ELSE IF transitions[i].condition_type # "business_rules"
    THEN CleanLoop(transitions, i + 1, rules_map, ctx)
    ELSE LET act == CleanCheckBusinessRules(transitions[i], rules_map, ctx) IN
         IF act.raised THEN [EmptyResult EXCEPT !.raised = TRUE]
         ELSE IF act.triggered /\ act.agent_id # None
         THEN [keys |-> CleanResultKeys, next_agent_id |-> act.agent_id,
               context_updates |-> NoUpdates, transition_id |-> transitions[i].id,
               executed |-> act.executed, raised |-> FALSE]
         ELSE CleanLoop(transitions, i + 1, rules_map, ctx)

\* TransitionController.check_transitions(agent_id, context), clean copy:
\* .order_by(Transition.priority.desc())
CleanCheckTransitions(rows, rules_map, agent_id, ctx) ==
    LET IsMine(t) == t.source_agent_id = agent_id
        transitions == SortedByPriority(SelectSeq(QueryAll(rows, 1), IsMine))
    IN CleanLoop(transitions, 1, rules_map, ctx)

-----------------------------------------------------------------------------
(* AgentGraphManager: the DiGraph and the queries on it *)

\* graph.add_edge(source, target, **attrs): a DiGraph holds one edge per
\* (source, target); adding it again overwrites the attributes in place
add_edge(edges, t) ==
    LET e == [source |-> t.source_agent_id, target |-> t.target_agent_id,
              id |-> t.id, condition_type |-> t.condition_type,
              condition_data |-> t.condition_data, priority |-> t.priority]
        same == {i \in DOMAIN edges :
                    edges[i].source = e.source /\ edges[i].target = e.target}
    IN IF same = {} THEN Append(edges, e)
       ELSE [i \in DOMAIN edges |-> IF i \in same THEN e ELSE edges[i]]

RECURSIVE AddEdges(_, _)
AddEdges(edges, transitions) ==
    IF transitions = <<>> THEN edges
    ELSE AddEdges(add_edge(edges, Head(transitions)), Tail(transitions))

\* AgentGraphManager._build_graph: the transitions between member agents
BuildGraph(rows) ==
    LET Between(t) == /\ t.source_agent_id \in MemberIds
                      /\ t.target_agent_id \in MemberIds
    IN AddEdges(<<>>, SelectSeq(QueryAll(rows, 1), Between))

EdgeDict(e) ==
    [id |-> e.id, target_agent_id |-> e.target, condition_type |-> e.condition_type,
     condition_data |-> e.condition_data, priority |-> e.priority]

\* AgentGraphManager.get_agent_transitions: raises for an agent that is no node
get_agent_transitions(g, agent_id) ==
    IF agent_id \notin MemberIds THEN [raised |-> TRUE, transitions |-> <<>>]
    ELSE LET From(e) == e.source = agent_id
             out == SelectSeq(g, From)
         IN [raised |-> FALSE,
             transitions |-> SortedByPriority([i \in DOMAIN out |-> EdgeDict(out[i])])]

\* str(tool_id) for the tool ids of the model
str(n) == <<"0", "1", "2", "3", "4", "5", "6", "7", "8", "9">>[n + 1]

\* a tool result that is a dict of one key, {key: value}, as its tokens; no
\* string of the model holds a brace, so it equals none
Dict(key, value) == <<"{">> \o key \o <<":">> \o value \o <<"}">>

\* `x in result` on a list
InList(x, result) == \E i \in DOMAIN result : result[i] = x

\* the event branch of _check_condition: every key of event_data is looked up in
\* the recorded event itself (type, source, data), not in its data
EventMatches(event, event_type, event_data) ==
    /\ event.type = event_type
    /\ \A key \in DOMAIN event_data :
          key \in DOMAIN event /\ event[key] = event_data[key]

\* an event branch that looks every key of event_data up in the event's data
EventDataMatches(event, event_type, event_data) ==
    /\ event.type = event_type
    /\ \A key \in DOMAIN event_data :
          key \in DOMAIN event.data /\ event.data[key] = event_data[key]

\* AgentGraphManager._check_condition; context["tool_results"][name] is the
\* list AgentEventHandler._handle_tool_result appends to
CheckCondition(condition_type, condition_data, ctx) ==
    CASE condition_type = "user_input" ->
            IF condition_data.pattern = EmptyStr \/ ctx.user_input = Absent
            THEN FALSE
            ELSE StrIn(lower(condition_data.pattern), lower(ctx.user_input))
      [] condition_type = "tool_result" ->
            /\ str(condition_data.tool_id) \in DOMAIN ctx.tool_results
            /\ InList(condition_data.result_key,
                      ctx.tool_results[str(condition_data.tool_id)])
            /\ FALSE
      [] condition_type = "agent_decision" ->
            /\ condition_data.decision_key \in DOMAIN ctx.agent_decisions
            /\ ctx.agent_decisions[condition_data.decision_key]
                  = condition_data.expected_value
      [] condition_type = "event" ->
            \E e \in DOMAIN ctx.events :
                EventMatches(ctx.events[e], condition_data.event_type,
                             condition_data.event_data)
      [] condition_type = "custom" -> FALSE
      [] OTHER -> FALSE

\* AgentGraphManager._check_condition raises: pattern.lower() on a pattern that
\* is no string (AttributeError), once the pattern is truthy and the context
\* has a user_input; result[result_key] on the list of a tool's results
\* (TypeError), once result_key is one of its items
ConditionRaises(condition_type, condition_data, ctx) ==
    \/ /\ condition_type = "user_input"
       /\ condition_data.pattern = NotAString
       /\ ctx.user_input # Absent
    \/ /\ condition_type = "tool_result"
       /\ str(condition_data.tool_id) \in DOMAIN ctx.tool_results
       /\ InList(condition_data.result_key,
                 ctx.tool_results[str(condition_data.tool_id)])

\* AgentGraphManager.check_transitions: the loop, with nothing caught
RECURSIVE FirstMatching(_, _, _)
FirstMatching(transitions, i, ctx) ==
    IF i > Len(transitions) THEN [raised |-> FALSE, target |-> None]
    ELSE IF ConditionRaises(transitions[i].condition_type,
                            transitions[i].condition_data, ctx)
    THEN [raised |-> TRUE, target |-> None]
    ELSE IF CheckCondition(transitions[i].condition_type,
                           transitions[i].condition_data, ctx)
    THEN [raised |-> FALSE, target |-> transitions[i].target_agent_id]
    ELSE FirstMatching(transitions, i + 1, ctx)

GraphCheckTransitions(g, agent_id, ctx) ==
    LET got == get_agent_transitions(g, agent_id) IN
    IF got.raised THEN [raised |-> TRUE, target |-> None]
    ELSE FirstMatching(got.transitions, 1, ctx)

\* a caller that drops the updates
ContextUpdateSkipped(ctx, updates) == ctx

\* dict.update(context_updates)
ContextUpdate(ctx, updates) ==
    [ctx EXCEPT !.extra = [k \in CtxKeys |->
        IF updates[k] # NoValue THEN updates[k] ELSE @[k]]]

\* BusinessRulesAgentGraphManager.check_transitions: the Business Rules
\* transitions first, the base implementation when none of them triggers
BusinessRulesCheckTransitions(rows, rules_map, g, agent_id, ctx) ==
    CHOOSE returned \in {
    IF result.raised THEN [raised |-> TRUE, target |-> None, context |-> ctx]
    ELSE IF "next_agent_id" \in result.keys
    THEN [raised |-> FALSE, target |-> result.next_agent_id,
          context |-> ContextUpdate(ctx, result.context_updates)]
    ELSE LET base == GraphCheckTransitions(g, agent_id, ctx) IN
         [raised |-> base.raised, target |-> base.target, context |-> ctx]
    : result \in {ControllerCheckTransitions(rows, rules_map, agent_id, ctx)} } : TRUE

-----------------------------------------------------------------------------
(* The stores the model starts from *)

Contains(p) == AllOf(<<Leaf("user_input", "contains", p)>>)

RulesTo(p, a) == <<Rule(Contains(p), <<ToAgent(a)>>)>>
RulesTwoRules ==
    <<Rule(Contains(<<"c">>), <<ToAgent(2)>>),
      Rule(AnyOf(<<Leaf("user_input", "contains", <<"c">>),
                   Leaf("user_input", "contains", <<"h">>)>>), <<ToAgent(3)>>)>>
RulesTwoTargets == <<Rule(Contains(<<"c">>), <<ToAgent(2), ToAgent(3)>>)>>
RulesSetOnly == <<Rule(Contains(<<"c">>), <<SetValue("topic", "fight")>>)>>
RulesSetAndGo ==
    <<Rule(Contains(<<"m">>),
           <<SetValue("mood", "trade"), LogTransition, ToAgent(3)>>)>>

WithRules(row, rules) == [row |-> row, has_rules |-> TRUE, rules |-> rules]
Plain(row) == [row |-> row, has_rules |-> FALSE, rules |-> <<>>]

\* the transitions a store may hold: a row and, for some, its rule-set
Pool ==
    { WithRules(Row(1, 2, "business_rules", NoData, 10), RulesTo(<<"c">>, 2)),
      WithRules(Row(1, 3, "business_rules", NoData, 10), RulesTo(<<"m">>, 3)),
      WithRules(Row(1, 2, "business_rules", NoData, 20), RulesTo(<<"h">>, 2)),
      WithRules(Row(1, 3, "business_rules", NoData, 10), RulesTwoRules),
      WithRules(Row(1, 2, "business_rules", NoData, 10), RulesTwoTargets),
      WithRules(Row(1, 3, "business_rules", NoData, 20), RulesSetOnly),
      WithRules(Row(1, 3, "business_rules", NoData, 10), RulesSetAndGo),
      Plain(Row(1, 2, "business_rules", NoData, 20)),
      Plain(Row(1, 2, "user_input", Pattern(<<"c">>), 20)),
      Plain(Row(1, 3, "user_input", Pattern(<<"m">>), 10)),
      Plain(Row(1, 3, "custom", NoData, 20)),
      Plain(Row(2, 3, "user_input", Pattern(<<"M">>), 10)),
      WithRules(Row(1, 4, "business_rules", NoData, 10), RulesTo(<<"x">>, 4)) }

Stores == [1..NumTransitions -> Pool]

TransitionRows(store) == [i \in DOMAIN store |-> store[i].row]
RulesMap(store) ==
    [i \in {j \in DOMAIN store : store[j].has_rules} |-> store[i].rules]

\* what the user may say
Msgs == { <<"x">>, <<"c">>, <<"m">>, <<"C">>, <<"h", "c">>, <<"m", "c">> }

\* AgentOrchestrator._initialize_context
InitialContext ==
    [current_agent_id |-> InitialAgentId, previous_agent_id |-> None,
     current_agent_name |-> AgentName(InitialAgentId), user_input |-> Absent,
     turn_count |-> 0, events |-> <<>>, conversation |-> <<>>, agents |-> {},
     extra |-> NoUpdates, session |-> "none", replaced |-> {},
     tool_results |-> <<>>, last_tool_result |-> Absent,
     agent_decisions |-> <<>>]

\* ConversationController.__init__: the initial agent, created
NewConversationController ==
    [current_agent_id |-> InitialAgentId, current_agent |-> InitialAgentId]

\* SessionContext() and SessionManager(db) as constructed
ApartInit ==
    /\ data = <<>>
    /\ now = 0
    /\ orchs = <<>>
    /\ registry = <<>>
    /\ mlock = "free"
    /\ Conversation = [c \in ConversationIds |->
                          ConversationRow(InitialAgentId, MemberIds)]
    /\ lock = "free"
    /\ transition_check_thread = None
    /\ loops = <<>>

NoCall ==
    [op |-> "none", agent_id |-> None, transitions |-> <<>>,
     result |-> EmptyResult, target |-> None, raised |-> FALSE,
     before |-> InitialContext, outcome |-> "none", via |-> "none",
     emitted_before |-> <<>>, controller_before |-> NewConversationController,
     exception |-> "none"]

-----------------------------------------------------------------------------
(* SpecGraph: the queries, applied to the stores and contexts above *)

QueriedAgents == {1, 2, 4}

InitGraph ==
    /\ \E store \in Stores :
          /\ Transition = TransitionRows(store)
          /\ BusinessRulesTransition = RulesMap(store)
          /\ graph = BuildGraph(TransitionRows(store))
    /\ \E m \in Msgs \cup {Absent} :
          context = [InitialContext EXCEPT !.user_input = m, !.turn_count = 1]
    /\ controller = NewConversationController
    /\ emitted = <<>>
    /\ call = NoCall
    /\ steps = 0
    /\ threads = <<>>
    /\ running = FALSE
    /\ ApartInit

Fixed == UNCHANGED <<Transition, BusinessRulesTransition, graph, controller,
                     emitted, steps, threads, running, Apart>>

GetAgentTransitions(a) ==
    /\ LET got == get_agent_transitions(graph, a) IN
       call' = [NoCall EXCEPT !.op = "get_agent_transitions", !.agent_id = a,
                              !.transitions = got.transitions,
                              !.raised = got.raised, !.before = context]
    /\ UNCHANGED context
    /\ Fixed

ControllerCheck(a) ==
    /\ call' = [NoCall EXCEPT !.op = "controller_check", !.agent_id = a,
                  !.result = ControllerCheckTransitions(Transition,
                                BusinessRulesTransition, a, context),
                  !.before = context]
    /\ UNCHANGED context
    /\ Fixed

CleanControllerCheck(a) ==
    /\ LET res == CleanCheckTransitions(Transition, BusinessRulesTransition, a,
                                        context) IN
       call' = [NoCall EXCEPT !.op = "clean_controller_check", !.agent_id = a,
                              !.result = res, !.raised = res.raised,
                              !.before = context]
    /\ UNCHANGED context
    /\ Fixed

GraphCheck(a) ==
    /\ LET got == GraphCheckTransitions(graph, a, context) IN
       call' = [NoCall EXCEPT !.op = "graph_check", !.agent_id = a,
                              !.target = got.target, !.raised = got.raised,
                              !.before = context]
    /\ UNCHANGED context
    /\ Fixed

BusinessRulesGraphCheck(a) ==
    /\ LET got == BusinessRulesCheckTransitions(Transition,
                      BusinessRulesTransition, graph, a, context) IN
       /\ call' = [NoCall EXCEPT !.op = "check_transitions", !.agent_id = a,
                                 !.target = got.target, !.raised = got.raised,
                                 !.before = context]
       /\ context' = got.context
    /\ Fixed

\* each store and context is queried once
NextGraph ==
    /\ call.op = "none"
    /\ \E a \in QueriedAgents :
        \/ GetAgentTransitions(a)
        \/ ControllerCheck(a)
        \/ CleanControllerCheck(a)
        \/ GraphCheck(a)
        \/ BusinessRulesGraphCheck(a)

SpecGraph == InitGraph /\ [][NextGraph]_vars

-----------------------------------------------------------------------------
(* EventManager and its handlers, rataura2/livekit_agent/events.py *)

LastN(seq, n) ==
    IF Len(seq) <= n THEN seq ELSE SubSeq(seq, Len(seq) - n + 1, Len(seq))

\* EventHandler.handle_event before its callbacks: the event is appended to
\* context["events"] and the list cut to its last 100 (timestamps left out)
handle_event(ctx, event) ==
    [ctx EXCEPT !.events = LastN(Append(@, event), EventHistoryCap)]

\* the three handlers the orchestrator registers, in registration order; each
\* one appends the event
Handlers == <<"livekit", "session", "agent">>

RECURSIVE AppendAll(_, _, _)
AppendAll(ctx, event, h) ==
    IF h > Len(Handlers) THEN ctx
    ELSE AppendAll(handle_event(ctx, event), event, h + 1)

UserMessageEvent(m) ==
    [type |-> "user_message", source |-> "user", data |-> [message |-> m]]

AgentStartedEvent(a) ==
    [type |-> "agent_started", source |-> "agent",
     data |-> [agent_id |-> a, agent_name |-> AgentName(a)]]

TransitionEvent(prev, target) ==
    [type |-> "custom", source |-> "orchestrator",
     data |-> [previous_agent_id |-> prev, target_agent_id |-> target,
               transition_type |-> "orchestrator"]]

\* AgentEventHandler._handle_user_message
handle_user_message(ctx, event) ==
    [ctx EXCEPT !.conversation = Append(@, [role |-> "user",
                                            content |-> event.data.message]),
                !.user_input = event.data.message,
                !.turn_count = @ + 1]

\* AgentEventHandler._handle_agent_started
handle_agent_started(ctx, event) ==
    [ctx EXCEPT !.agents = @ \cup {event.data.agent_id},
                !.current_agent_id = event.data.agent_id,
                !.current_agent_name = event.data.agent_name]

-----------------------------------------------------------------------------
(* AgentOrchestrator, rataura2/orchestration/orchestrator.py *)

\* AgentOrchestrator.check_transition
check_transition(ctx) ==
    IF ctx.current_agent_id = None
    THEN [raised |-> FALSE, target |-> None, context |-> ctx]
    ELSE BusinessRulesCheckTransitions(Transition, BusinessRulesTransition, graph,
                                       ctx.current_agent_id, ctx)

\* an execute_transition that moves to the target and forgets where it came from
execute_transition_no_previous(ctx, ctrl, em, target_agent_id, creates) ==
    LET current_agent_id == ctx.current_agent_id
        Same(outcome) == [outcome |-> outcome, context |-> ctx,
                          controller |-> ctrl, emitted |-> em,
                          exception |-> "none"]
    IN IF current_agent_id = None THEN Same("Error")
       ELSE IF target_agent_id = current_agent_id THEN Same("NoTransition")
       ELSE IF target_agent_id \notin AgentIds THEN Same("Error")
       ELSE LET written == [ctx EXCEPT
                               !.current_agent_id = target_agent_id,
                               !.current_agent_name = AgentName(target_agent_id)]
                transition_event == TransitionEvent(current_agent_id,
                                                    target_agent_id)
            IN [outcome |-> IF creates THEN "Success" ELSE "Error",
                context |-> AppendAll(written, transition_event, 1),
                controller |->
                    [current_agent_id |-> target_agent_id,
                     current_agent |-> IF creates THEN target_agent_id
                                       ELSE ctrl.current_agent],
                emitted |-> Append(em, transition_event),
                exception |-> IF creates THEN "none" ELSE "create_agent"]

\* an execute_transition that does not skip a target that is the current agent
execute_transition_to_self(ctx, ctrl, em, target_agent_id, creates) ==
    LET current_agent_id == ctx.current_agent_id
        Same(outcome) == [outcome |-> outcome, context |-> ctx,
                          controller |-> ctrl, emitted |-> em,
                          exception |-> "none"]
    IN IF current_agent_id = None THEN Same("Error")
       ELSE IF target_agent_id \notin AgentIds THEN Same("Error")
       ELSE LET written == [ctx EXCEPT
                               !.previous_agent_id = current_agent_id,
                               !.current_agent_id = target_agent_id,
                               !.current_agent_name = AgentName(target_agent_id)]
                transition_event == TransitionEvent(current_agent_id,
                                                    target_agent_id)
            IN [outcome |-> IF creates THEN "Success" ELSE "Error",
                context |-> AppendAll(written, transition_event, 1),
                controller |->
                    [current_agent_id |-> target_agent_id,
                     current_agent |-> IF creates THEN target_agent_id
                                       ELSE ctrl.current_agent],
                emitted |-> Append(em, transition_event),
                exception |-> IF creates THEN "none" ELSE "create_agent"]

\* AgentOrchestrator.execute_transition; creates says whether
\* AgentFactory.create_agent returns (TRUE) or raises (FALSE)
execute_transition(ctx, ctrl, em, target_agent_id, creates) ==
    LET current_agent_id == ctx.current_agent_id
        Same(outcome) == [outcome |-> outcome, context |-> ctx,
                          controller |-> ctrl, emitted |-> em,
                          exception |-> "none"]
    IN IF current_agent_id = None THEN Same("Error")
       ELSE IF target_agent_id = current_agent_id THEN Same("NoTransition")
       ELSE IF target_agent_id \notin AgentIds THEN Same("Error")
       ELSE LET written == [ctx EXCEPT
                               !.previous_agent_id = current_agent_id,
                               !.current_agent_id = target_agent_id,
                               !.current_agent_name = AgentName(target_agent_id)]
                transition_event == TransitionEvent(current_agent_id,
                                                    target_agent_id)
            IN [outcome |-> IF creates THEN "Success" ELSE "Error",
                context |-> AppendAll(written, transition_event, 1),
                controller |->
                    [current_agent_id |-> target_agent_id,
                     current_agent |-> IF creates THEN target_agent_id
                                       ELSE ctrl.current_agent],
                emitted |-> Append(em, transition_event),
                exception |-> IF creates THEN "none" ELSE "create_agent"]

\* AgentOrchestrator.check_and_execute_transition; the outcome "raised" is an
\* exception leaving the call
check_and_execute_transition(ctx, ctrl, em, creates) ==
    CHOOSE returned \in {
    IF checked.raised
    THEN [outcome |-> "raised", context |-> ctx, controller |-> ctrl,
          emitted |-> em, target |-> None, exception |-> "check_transition"]
    ELSE IF checked.target = None
    THEN [outcome |-> "NoTransition", context |-> checked.context,
          controller |-> ctrl, emitted |-> em, target |-> None,
          exception |-> "none"]
    ELSE LET done == execute_transition(checked.context, ctrl, em,
                                        checked.target, creates)
         IN [outcome |-> done.outcome, context |-> done.context,
             controller |-> done.controller, emitted |-> done.emitted,
             target |-> checked.target, exception |-> done.exception]
    : checked \in {check_transition(ctx)} } : TRUE

-----------------------------------------------------------------------------
(* Spec: one orchestrator after construction, its calls one after another *)

StartedAgents == {2, 4}    \* the agents an agent_started event may name
Said == { <<"x">>, <<"c">>, <<"m">>, <<"m", "c">> }   \* the messages users send

Init ==
    /\ \E store \in Stores :
          /\ Transition = TransitionRows(store)
          /\ BusinessRulesTransition = RulesMap(store)
          /\ graph = BuildGraph(TransitionRows(store))
    /\ context = InitialContext
    /\ controller = NewConversationController
    /\ emitted = <<>>
    /\ call = NoCall
    /\ steps = 0
    /\ threads = <<>>
    /\ running = FALSE
    /\ ApartInit

Built == UNCHANGED <<Transition, BusinessRulesTransition, graph, threads, running,
                     Apart>>

\* the state a check_and_execute_transition call leaves, and its record
Returned(done, via, before) ==
    /\ context' = done.context
    /\ controller' = done.controller
    /\ emitted' = done.emitted
    /\ call' = [NoCall EXCEPT !.op = "check_and_execute_transition",
                              !.via = via,
                              !.agent_id = before.current_agent_id,
                              !.target = done.target,
                              !.raised = (done.outcome = "raised"),
                              !.outcome = done.outcome,
                              !.before = before,
                              !.emitted_before = emitted,
                              !.controller_before = controller,
                              !.exception = done.exception]
    /\ steps' = steps + 1

\* orchestrator.check_and_execute_transition(), called from outside
CheckAndExecuteTransition ==
    /\ steps < MaxSteps
    /\ \E creates \in BOOLEAN :
          Returned(check_and_execute_transition(context, controller, emitted,
                                                creates), "direct", context)
    /\ Built

\* orchestrator.process_event(USER_MESSAGE): the three handlers append the event,
\* then the agent handler's callbacks run: _handle_user_message and
\* _check_transition_after_event, whose exception handle_event swallows
ProcessUserMessage(m) ==
    /\ steps < MaxSteps
    /\ LET event == UserMessageEvent(m)
           handled == handle_user_message(AppendAll(context, event, 1), event)
       IN \E creates \in BOOLEAN :
             Returned(check_and_execute_transition(handled, controller, emitted,
                                                   creates),
                      "user_message", handled)
    /\ Built

\* orchestrator.process_event(AGENT_STARTED): the three handlers append the event,
\* then _handle_agent_started runs; no transition check follows this event
ProcessAgentStarted(a) ==
    /\ steps < MaxSteps
    /\ LET event == AgentStartedEvent(a) IN
       context' = handle_agent_started(AppendAll(context, event, 1), event)
    /\ call' = [NoCall EXCEPT !.op = "process_event", !.via = "agent_started",
                              !.agent_id = a, !.before = context,
                              !.emitted_before = emitted]
    /\ steps' = steps + 1
    /\ UNCHANGED <<controller, emitted>>
    /\ Built

Next ==
    \/ CheckAndExecuteTransition
    \/ \E m \in Said : ProcessUserMessage(m)
    \/ \E a \in StartedAgents : ProcessAgentStarted(a)

Spec == Init /\ [][Next]_vars

-----------------------------------------------------------------------------
(* SpecTargets: the calls of Spec on stores whose transitions may lead to the
   agent that is current already, or name an agent whose row has been deleted
   from the Agent table since the rule-set was stored *)

DeletedAgentId == 5

RulesSetAndGoTo(p, a) ==
    <<Rule(Contains(p), <<SetValue("mood", "trade"), ToAgent(a)>>)>>

TargetPool ==
    { Plain(Row(1, 1, "user_input", Pattern(<<"c">>), 20)),
      WithRules(Row(1, 2, "business_rules", NoData, 10), RulesTo(<<"m">>, 1)),
      Plain(Row(1, 2, "user_input", Pattern(<<"m">>), 10)),
      WithRules(Row(1, 3, "business_rules", NoData, 20),
                RulesTo(<<"x">>, DeletedAgentId)),
      WithRules(Row(1, 3, "business_rules", NoData, 20),
                RulesSetAndGoTo(<<"m">>, DeletedAgentId)),
      Plain(Row(1, DeletedAgentId, "user_input", Pattern(<<"x">>), 20)),
      Plain(Row(2, 2, "user_input", Pattern(<<"c">>), 20)) }

\* AgentGraphManager._build_graph, run while the row of DeletedAgentId was in
\* the Agent table and the agent in Conversation.agents
BuildGraphBeforeDelete(rows) ==
    LET agents == MemberIds \cup {DeletedAgentId}
        Between(t) == /\ t.source_agent_id \in agents
                      /\ t.target_agent_id \in agents
    IN AddEdges(<<>>, SelectSeq(QueryAll(rows, 1), Between))

InitTargets ==
    /\ \E store \in [1..NumTransitions -> TargetPool] :
          /\ Transition = TransitionRows(store)
          /\ BusinessRulesTransition = RulesMap(store)
          /\ graph = BuildGraphBeforeDelete(TransitionRows(store))
    /\ context = InitialContext
    /\ controller = NewConversationController
    /\ emitted = <<>>
    /\ call = NoCall
    /\ steps = 0
    /\ threads = <<>>
    /\ running = FALSE
    /\ ApartInit

SpecTargets == InitTargets /\ [][Next]_vars

-----------------------------------------------------------------------------
(* SpecConc: the background check loop and an event-delivering thread on one
   orchestrator. check_and_execute_transition takes no lock (self.lock is taken
   by start and stop only), so the steps of the two threads interleave. *)

ThreadIds == {"loop", "event"}

ConcPool ==
    { Plain(Row(1, 2, "user_input", Pattern(<<"c">>), 20)),
      WithRules(Row(1, 3, "business_rules", NoData, 10), RulesSetAndGo),
      Plain(Row(2, 3, "user_input", Pattern(<<"M">>), 10)),
      WithRules(Row(1, 4, "business_rules", NoData, 10), RulesTo(<<"x">>, 4)) }

ConcStores == [1..NumTransitions -> ConcPool]

\* a thread outside check_and_execute_transition
Idle == [pc |-> "idle", target |-> None, seen |-> InitialContext,
         current_agent_id |-> None]

InitConc ==
    /\ \E store \in ConcStores :
          /\ Transition = TransitionRows(store)
          /\ BusinessRulesTransition = RulesMap(store)
          /\ graph = BuildGraph(TransitionRows(store))
    /\ context = InitialContext
    /\ controller = NewConversationController
    /\ emitted = <<>>
    /\ call = NoCall
    /\ steps = 0
    /\ threads = [t \in ThreadIds |-> Idle]
    /\ running = FALSE
    /\ ApartInit

BuiltConc == UNCHANGED <<Transition, BusinessRulesTransition, graph, Apart>>

\* orchestrator.start(): the loop thread is spawned
Start ==
    /\ ~running
    /\ running' = TRUE
    /\ UNCHANGED <<context, controller, emitted, call, steps, threads>>
    /\ BuiltConc

\* orchestrator.stop(): the flag is cleared; the join waits at most 5 seconds
\* and a call the loop is inside goes on
Stop ==
    /\ running
    /\ running' = FALSE
    /\ UNCHANGED <<context, controller, emitted, call, steps, threads>>
    /\ BuiltConc

\* _transition_check_loop: while self.running, the next call begins
LoopTick ==
    /\ running
    /\ steps < MaxSteps
    /\ threads["loop"].pc = "idle"
    /\ threads' = [threads EXCEPT !["loop"].pc = "check"]
    /\ steps' = steps + 1
    /\ UNCHANGED <<context, controller, emitted, call, running>>
    /\ BuiltConc

\* process_event(USER_MESSAGE) on the event thread, up to the callback that
\* checks for transitions
DeliverUserMessage(m) ==
    /\ steps < MaxSteps
    /\ threads["event"].pc = "idle"
    /\ LET event == UserMessageEvent(m) IN
       context' = handle_user_message(AppendAll(context, event, 1), event)
    /\ threads' = [threads EXCEPT !["event"].pc = "check"]
    /\ steps' = steps + 1
    /\ UNCHANGED <<controller, emitted, call, running>>
    /\ BuiltConc

\* process_event(AGENT_STARTED) on the event thread
DeliverAgentStarted(a) ==
    /\ steps < MaxSteps
    /\ threads["event"].pc = "idle"
    /\ LET event == AgentStartedEvent(a) IN
       context' = handle_agent_started(AppendAll(context, event, 1), event)
    /\ steps' = steps + 1
    /\ UNCHANGED <<controller, emitted, call, threads, running>>
    /\ BuiltConc

\* how a thread's call ended
Ended(t, outcome, exception) ==
    /\ call' = [NoCall EXCEPT !.op = "check_and_execute_transition", !.via = t,
                              !.agent_id = threads[t].seen.current_agent_id,
                              !.target = threads[t].target,
                              !.raised = (outcome = "raised"),
                              !.outcome = outcome,
                              !.before = threads[t].seen,
                              !.exception = exception]
    /\ threads' = [threads EXCEPT ![t] = Idle]

\* check_transition() of thread t: the context is read and a target picked
Check(t) ==
    /\ threads[t].pc = "check"
    /\ LET checked == check_transition(context)
           seen == [threads[t] EXCEPT !.seen = context, !.target = checked.target]
       IN /\ context' = checked.context
          /\ IF checked.raised \/ checked.target = None
             THEN /\ call' = [NoCall EXCEPT
                                 !.op = "check_and_execute_transition", !.via = t,
                                 !.agent_id = context.current_agent_id,
                                 !.raised = checked.raised,
                                 !.outcome = IF checked.raised THEN "raised"
                                             ELSE "NoTransition",
                                 !.before = context,
                                 !.exception = IF checked.raised
                                               THEN "check_transition" ELSE "none"]
                  /\ threads' = [threads EXCEPT ![t] = Idle]
             ELSE /\ threads' = [threads EXCEPT ![t] = [seen EXCEPT !.pc = "execute"]]
                  /\ UNCHANGED call
    /\ UNCHANGED <<controller, emitted, steps, running>>
    /\ BuiltConc

\* execute_transition of thread t, up to its first write: current_agent_id is
\* read again and the target looked up
ExecuteRead(t) ==
    /\ threads[t].pc = "execute"
    /\ LET current_agent_id == context.current_agent_id
           target_agent_id == threads[t].target
       IN IF current_agent_id = None \/ target_agent_id \notin AgentIds
          THEN Ended(t, "Error", "none")
          ELSE IF target_agent_id = current_agent_id
          THEN Ended(t, "NoTransition", "none")
          ELSE /\ threads' = [threads EXCEPT ![t].pc = "write",
                                  ![t].current_agent_id = current_agent_id]
               /\ UNCHANGED call
    /\ UNCHANGED <<context, controller, emitted, steps, running>>
    /\ BuiltConc

\* the three context writes of execute_transition
Write(t) ==
    /\ threads[t].pc = "write"
    /\ context' = [context EXCEPT
                      !.previous_agent_id = threads[t].current_agent_id,
                      !.current_agent_id = threads[t].target,
                      !.current_agent_name = AgentName(threads[t].target)]
    /\ threads' = [threads EXCEPT ![t].pc = "emit"]
    /\ UNCHANGED <<controller, emitted, call, steps, running>>
    /\ BuiltConc

\* the rest of execute_transition: the transition event is processed, the
\* controller moved and the agent created
Finish(t) ==
    /\ threads[t].pc = "emit"
    /\ LET transition_event == TransitionEvent(threads[t].current_agent_id,
                                               threads[t].target)
       IN /\ context' = AppendAll(context, transition_event, 1)
          /\ emitted' = Append(emitted, transition_event)
    /\ \E creates \in BOOLEAN :
          /\ controller' = [current_agent_id |-> threads[t].target,
                            current_agent |-> IF creates THEN threads[t].target
                                              ELSE controller.current_agent]
          /\ Ended(t, IF creates THEN "Success" ELSE "Error",
                      IF creates THEN "none" ELSE "create_agent")
    /\ UNCHANGED <<steps, running>>
    /\ BuiltConc

NextConc ==
    \/ Start
    \/ Stop
    \/ LoopTick
    \/ \E m \in Said : DeliverUserMessage(m)
    \/ \E a \in StartedAgents : DeliverAgentStarted(a)
    \/ \E t \in ThreadIds : Check(t) \/ ExecuteRead(t) \/ Write(t) \/ Finish(t)

SpecConc == InitConc /\ [][NextConc]_vars

-----------------------------------------------------------------------------
(* SpecEvents: one orchestrator ingesting a long run of distinct events that no
   callback is registered for, so that the cap of the event history is reached *)

\* the n-th event ingested: a CUSTOM event from the session, numbered
NumberedEvent(n) ==
    [type |-> "custom", source |-> "session", data |-> [seq |-> n]]

InitEvents ==
    /\ Transition = <<>>
    /\ BusinessRulesTransition = <<>>
    /\ graph = <<>>
    /\ context = InitialContext
    /\ controller = NewConversationController
    /\ emitted = <<>>
    /\ call = NoCall
    /\ steps = 0
    /\ threads = <<>>
    /\ running = FALSE
    /\ ApartInit

\* orchestrator.process_event(event): EventManager.process_event hands the event
\* to every registered handler
IngestEvent ==
    /\ steps < MaxEvents
    /\ context' = AppendAll(context, NumberedEvent(steps + 1), 1)
    /\ steps' = steps + 1
    /\ call' = [NoCall EXCEPT !.op = "process_event", !.via = "custom"]
    /\ UNCHANGED <<Transition, BusinessRulesTransition, graph, controller,
                   emitted, threads, running, Apart>>

NextEvents == IngestEvent

SpecEvents == InitEvents /\ [][NextEvents]_vars

-----------------------------------------------------------------------------
(* SessionContext: a keyed store whose entries may carry a time to live *)

MaxTime == 2

ContextKeys == {"a", "b"}
ContextValues == {"v", "w"}
Scopes == {"session", "user"}
\* the ttl argument of set: None, or a number of seconds
Ttls == {[has_ttl |-> FALSE, ttl |-> 0], [has_ttl |-> TRUE, ttl |-> 0],
         [has_ttl |-> TRUE, ttl |-> 1]}
\* the default a caller of get passes
Default == "d"
\* get_all(scope = None)
AnyScope == "any"

\* the metadata argument of set: None becomes {}
NoMetadata == [k \in {} |-> ""]
Metadatas == {NoMetadata, [origin |-> "tool"]}

\* ContextValue(value, scope, timestamp = time.time(), ttl, metadata)
ContextValue(value, scope, timestamp, t, metadata) ==
    [value |-> value, scope |-> scope, timestamp |-> timestamp,
     has_ttl |-> t.has_ttl, ttl |-> t.ttl, metadata |-> metadata]

\* a dict without some keys
Without(d, ks) == [k \in DOMAIN d \ ks |-> d[k]]

\* the same test in get, get_all and to_dict:
\* ttl is not None and time.time() > timestamp + ttl
expired_strictly_after(cv, t) == cv.has_ttl /\ t > cv.timestamp + cv.ttl

expired_from_deadline(cv, t) == cv.has_ttl /\ t >= cv.timestamp + cv.ttl

expired(cv, t) == expired_strictly_after(cv, t)

ExpiredKeys(d, t) == {k \in DOMAIN d : expired(d[k], t)}

\* SessionContext.get: [result, data]
get(d, key, default, t) ==
    IF key \notin DOMAIN d THEN [result |-> default, data |-> d]
    ELSE IF expired(d[key], t)
         THEN [result |-> default, data |-> Without(d, {key})]
         ELSE [result |-> d[key].value, data |-> d]

\* SessionContext.get_all: [result, data]
get_all(d, scope, t) ==
    LET kept == Without(d, ExpiredKeys(d, t))
        shown == {k \in DOMAIN kept : scope = AnyScope \/ kept[k].scope = scope}
    IN [result |-> [k \in shown |-> kept[k].value], data |-> kept]

\* SessionContext.to_dict: [result, data]
to_dict(d, t) ==
    LET kept == Without(d, ExpiredKeys(d, t))
    IN [result |-> [k \in DOMAIN kept |-> kept[k].value], data |-> kept]

\* what a call on the SessionContext leaves behind for the claims to read
ContextCall(op, key, scope, result, pre, t) ==
    [op |-> op, key |-> key, scope |-> scope, result |-> result, pre |-> pre,
     time |-> t]

InitContext ==
    /\ Transition = <<>>
    /\ BusinessRulesTransition = <<>>
    /\ graph = <<>>
    /\ context = InitialContext
    /\ controller = NewConversationController
    /\ emitted = <<>>
    /\ call = ContextCall("init", "", AnyScope, "", <<>>, 0)
    /\ steps = 0
    /\ threads = <<>>
    /\ running = FALSE
    /\ ApartInit

OnlyContext == UNCHANGED <<Transition, BusinessRulesTransition, graph, context,
                           controller, emitted, steps, threads, running, orchs,
                           registry, mlock, Conversation, Lifecycle>>

\* time passes
Tick ==
    /\ now < MaxTime
    /\ now' = now + 1
    /\ UNCHANGED <<data, call>>
    /\ OnlyContext

Set(key, value, scope, t, metadata) ==
    /\ data' = [k \in DOMAIN data \cup {key} |->
                  IF k = key THEN ContextValue(value, scope, now, t, metadata)
                  ELSE data[k]]
    /\ call' = ContextCall("set", key, scope, value, data, now)
    /\ UNCHANGED now
    /\ OnlyContext

Get(key) ==
    LET r == get(data, key, Default, now)
    IN /\ data' = r.data
       /\ call' = ContextCall("get", key, AnyScope, r.result, data, now)
       /\ UNCHANGED now
       /\ OnlyContext

GetAll(scope) ==
    LET r == get_all(data, scope, now)
    IN /\ data' = r.data
       /\ call' = ContextCall("get_all", "", scope, r.result, data, now)
       /\ UNCHANGED now
       /\ OnlyContext

ToDict ==
    LET r == to_dict(data, now)
    IN /\ data' = r.data
       /\ call' = ContextCall("to_dict", "", AnyScope, r.result, data, now)
       /\ UNCHANGED now
       /\ OnlyContext

\* SessionContext.remove
Remove(key) ==
    /\ data' = Without(data, {key})
    /\ call' = ContextCall("remove", key, AnyScope, key \in DOMAIN data, data, now)
    /\ UNCHANGED now
    /\ OnlyContext

NextContext ==
    \/ Tick
    \/ \E key \in ContextKeys, value \in ContextValues, scope \in Scopes, t \in Ttls :
          Set(key, value, scope, t, NoMetadata)
    \/ \E key \in ContextKeys : Get(key)
    \/ \E scope \in Scopes \cup {AnyScope} : GetAll(scope)
    \/ ToDict
    \/ \E key \in ContextKeys : Remove(key)

SpecContext == InitContext /\ [][NextContext]_vars

(* SpecClear: the calls that take entries out of a SessionContext, on entries
   of every scope, age and metadata *)

\* a clear that forgets its scope argument
clear_everything(d, scope) == Without(d, DOMAIN d)

\* SessionContext.clear: the data it leaves
clear(d, scope) ==
    IF scope = AnyScope THEN Without(d, DOMAIN d)
    ELSE Without(d, {key \in DOMAIN d : d[key].scope = scope})

Clear(scope) ==
    /\ data' = clear(data, scope)
    /\ call' = ContextCall("clear", "", scope, "", data, now)
    /\ UNCHANGED now
    /\ OnlyContext

NextClear ==
    \/ Tick
    \/ \E key \in ContextKeys, scope \in Scopes, t \in Ttls,
          metadata \in Metadatas : Set(key, "v", scope, t, metadata)
    \/ \E key \in ContextKeys : Remove(key)
    \/ \E scope \in Scopes \cup {AnyScope} : Clear(scope)

SpecClear == InitContext /\ [][NextClear]_vars

-----------------------------------------------------------------------------
(* The construction of an orchestrator: graph manager, controller, context *)

\* AgentGraphManager.__init__ and _build_graph: the conversation, the agents
\* joined through Conversation.agents as nodes, the transitions between them
build_graph(conversations, conversation_id, rows) ==
    IF conversation_id \notin DOMAIN conversations
    THEN [raised |-> "ValueError", conversation |-> None, agents |-> {},
          graph |-> <<>>, initial_agent_id |-> None]
    ELSE LET agents == conversations[conversation_id].agents \cap AgentIds
             Between(t) == /\ t.source_agent_id \in agents
                           /\ t.target_agent_id \in agents
         IN [raised |-> "none", conversation |-> conversation_id,
             agents |-> agents,
             graph |-> AddEdges(<<>>, SelectSeq(QueryAll(rows, 1), Between)),
             initial_agent_id |-> conversations[conversation_id].initial_agent_id]

\* AgentGraphManager.get_initial_agent: self.agents.get(initial_agent_id)
get_initial_agent(manager) ==
    IF manager.conversation = None
    THEN [raised |-> "ValueError", agent |-> None]
    ELSE [raised |-> "none",
          agent |-> IF manager.initial_agent_id \in manager.agents
                    THEN manager.initial_agent_id ELSE None]

\* a constructor that never fails
orchestrator_init_never_raises(conversations, conversation_id, rows) == "none"

\* AgentOrchestrator.__init__ up to _initialize_context: the graph manager,
\* the controller (factory.create_agent of the initial agent), the context
orchestrator_init(conversations, conversation_id, rows) ==
    LET manager == build_graph(conversations, conversation_id, rows)
        initial_agent == get_initial_agent(manager)
    IN IF manager.raised # "none" THEN manager.raised
       ELSE IF manager.initial_agent_id \notin AgentIds THEN "ValueError"
       ELSE IF initial_agent.agent = None THEN "AttributeError"
       ELSE "none"

-----------------------------------------------------------------------------
(* SpecManager: a SessionManager, the threads that call it, and the background
   loop of every orchestrator it starts. A method of the manager is a sequence
   of steps: its with self.lock block is entered when the lock is free, and the
   orchestrator calls inside the block are steps of their own. *)

MaxCalls == 3

SessionIds == {"s1", "s2"}
CallerIds == {"t1", "t2"}
ManagerOps == {"create_session", "get_orchestrator", "end_session",
               "process_livekit_event", "get_active_sessions", "shutdown"}

\* the transitions of the conversation every session runs
ManagerStore ==
    <<Plain(Row(1, 2, "user_input", Pattern(<<"c">>), 20)),
      Plain(Row(2, 3, "user_input", Pattern(<<"M">>), 10)),
      WithRules(Row(1, 4, "business_rules", NoData, 10), RulesTo(<<"x">>, 4))>>

\* AgentOrchestrator.__init__; stop_begun records that stop() has set
\* running to False on this orchestrator
NewOrchestrator(conversation_id) ==
    [conversation_id |-> conversation_id, running |-> FALSE,
     transition_check_thread |-> FALSE, loop |-> "none",
     context |-> InitialContext, controller |-> NewConversationController,
     stop_begun |-> FALSE]

start_skipped(o) == o

stop_skipped(o) == o

\* AgentOrchestrator.start
start(o) ==
    IF o.running THEN o
    ELSE [o EXCEPT !.running = TRUE, !.transition_check_thread = TRUE,
                   !.loop = "test"]

\* AgentOrchestrator.stop up to the join
stop(o) ==
    IF o.running THEN [o EXCEPT !.running = FALSE, !.stop_begun = TRUE] ELSE o

SessionCreatedEvent(s, c) ==
    [type |-> "session_created", source |-> "session_manager",
     data |-> [session_id |-> s, conversation_id |-> c]]

SessionEndedEvent(s) ==
    [type |-> "session_ended", source |-> "session_manager",
     data |-> [session_id |-> s]]

\* LivekitEventHandler.process_livekit_event on "message:received"
LivekitMessageEvent(m) ==
    [type |-> "user_message", source |-> "livekit", data |-> [message |-> m]]

\* SessionEventHandler._handle_session_created
handle_session_created(ctx, event) == [ctx EXCEPT !.session = "active"]

\* SessionEventHandler._handle_session_ended
handle_session_ended(ctx, event) ==
    IF ctx.session = "none" THEN ctx ELSE [ctx EXCEPT !.session = "ended"]

\* AgentOrchestrator.process_event(USER_MESSAGE) on an orchestrator record
process_user_message(o, m, creates) ==
    LET event == UserMessageEvent(m)
        handled == handle_user_message(AppendAll(o.context, event, 1), event)
        done == check_and_execute_transition(handled, o.controller, <<>>, creates)
    IN [o EXCEPT !.context = done.context, !.controller = done.controller]

\* AgentOrchestrator.check_and_execute_transition on an orchestrator record
check_and_execute(o, creates) ==
    LET done == check_and_execute_transition(o.context, o.controller, <<>>,
                                             creates)
    IN [o EXCEPT !.context = done.context, !.controller = done.controller]

\* a thread that is in no call
IdleCaller == [pc |-> "idle", op |-> "none", fn |-> "none", session |-> "",
               conversation |-> 0, orch |-> 0, ref |-> 0]

\* what a returned call leaves behind for the claims to read
ManagerCall(op, t, s, returned, ref, found) ==
    [op |-> op, thread |-> t, session |-> s, returned |-> returned, ref |-> ref,
     found |-> found]

InitManager ==
    /\ Transition = TransitionRows(ManagerStore)
    /\ BusinessRulesTransition = RulesMap(ManagerStore)
    /\ graph = BuildGraph(TransitionRows(ManagerStore))
    /\ context = InitialContext
    /\ controller = NewConversationController
    /\ emitted = <<>>
    /\ call = ManagerCall("none", "", "", "none", 0, FALSE)
    /\ steps = 0
    /\ threads = [t \in CallerIds |-> IdleCaller]
    /\ running = FALSE
    /\ ApartInit

OnlyManager == UNCHANGED <<Transition, BusinessRulesTransition, graph, context,
                           controller, emitted, running, data, now,
                           Conversation, Lifecycle>>

\* the call returns to the thread's caller
Return(t, returned, ref, found) ==
    /\ threads' = [threads EXCEPT ![t] = [IdleCaller EXCEPT !.ref = ref]]
    /\ call' = ManagerCall(threads[t].op, t, threads[t].session, returned, ref,
                           found)

\* a thread calls a method of the manager and reaches its with self.lock
Call(t, op, s, c) ==
    /\ steps < MaxCalls
    /\ threads[t].pc = "idle"
    /\ threads' = [threads EXCEPT ![t] =
                      [@ EXCEPT !.pc = "lock", !.op = op, !.fn = op,
                                !.session = IF op \in {"get_active_sessions",
                                                       "shutdown"}
                                            THEN "" ELSE s,
                                !.conversation = IF op = "create_session"
                                                 THEN c ELSE 0]]
    /\ steps' = steps + 1
    /\ UNCHANGED <<call, orchs, registry, mlock>>
    /\ OnlyManager

Waiting(t, fn) ==
    /\ threads[t].pc = "lock"
    /\ threads[t].fn = fn
    /\ mlock = "free"

\* create_session from the lock to the construction and registration; an
\* exception of AgentOrchestrator(db, conversation_id) leaves the with block
EnterCreate(t) ==
    /\ Waiting(t, "create_session")
    /\ LET s == threads[t].session
           c == threads[t].conversation
           id == Len(orchs) + 1
       IN IF s \in DOMAIN registry
          THEN /\ Return(t, "orchestrator", registry[s], TRUE)
               /\ UNCHANGED <<orchs, registry, mlock>>
          ELSE IF orchestrator_init(Conversation, c, Transition) # "none"
          THEN /\ Return(t, orchestrator_init(Conversation, c, Transition),
                         threads[t].ref, FALSE)
               /\ UNCHANGED <<orchs, registry, mlock>>
          ELSE /\ orchs' = Append(orchs, NewOrchestrator(c))
               /\ registry' = [x \in DOMAIN registry \cup {s} |->
                                  IF x = s THEN id ELSE registry[x]]
               /\ mlock' = t
               /\ threads' = [threads EXCEPT ![t] =
                                 [@ EXCEPT !.pc = "start", !.orch = id]]
               /\ UNCHANGED call
    /\ UNCHANGED steps
    /\ OnlyManager

\* create_session: orchestrator.start()
CreateStart(t) ==
    /\ threads[t].pc = "start"
    /\ orchs' = [orchs EXCEPT ![threads[t].orch] = start(@)]
    /\ threads' = [threads EXCEPT ![t] = [@ EXCEPT !.pc = "created_event"]]
    /\ UNCHANGED <<call, steps, registry, mlock>>
    /\ OnlyManager

\* create_session: orchestrator.process_event(SESSION_CREATED), and the return
CreateEvent(t) ==
    /\ threads[t].pc = "created_event"
    /\ LET event == SessionCreatedEvent(threads[t].session,
                                        threads[t].conversation)
       IN orchs' = [orchs EXCEPT ![threads[t].orch].context =
                       handle_session_created(AppendAll(@, event, 1), event)]
    /\ mlock' = "free"
    /\ Return(t, "orchestrator", threads[t].orch, FALSE)
    /\ UNCHANGED <<steps, registry>>
    /\ OnlyManager

\* get_orchestrator
GetOrchestrator(t) ==
    /\ Waiting(t, "get_orchestrator")
    /\ IF threads[t].session \in DOMAIN registry
       THEN Return(t, "orchestrator", registry[threads[t].session], TRUE)
       ELSE Return(t, "none", 0, FALSE)
    /\ UNCHANGED <<steps, orchs, registry, mlock>>
    /\ OnlyManager

\* get_active_sessions
GetActiveSessions(t) ==
    /\ Waiting(t, "get_active_sessions")
    /\ Return(t, "list", threads[t].ref, TRUE)
    /\ UNCHANGED <<steps, orchs, registry, mlock>>
    /\ OnlyManager

\* end_session from the lock to the lookup
EnterEnd(t) ==
    /\ Waiting(t, "end_session")
    /\ IF threads[t].session \notin DOMAIN registry
       THEN /\ Return(t, "false", threads[t].ref, FALSE)
            /\ UNCHANGED mlock
       ELSE /\ mlock' = t
            /\ threads' = [threads EXCEPT ![t] =
                              [@ EXCEPT !.pc = "ended_event",
                                        !.orch = registry[threads[t].session]]]
            /\ UNCHANGED call
    /\ UNCHANGED <<steps, orchs, registry>>
    /\ OnlyManager

\* end_session: orchestrator.process_event(SESSION_ENDED)
EndEvent(t) ==
    /\ threads[t].pc = "ended_event"
    /\ LET event == SessionEndedEvent(threads[t].session)
       IN orchs' = [orchs EXCEPT ![threads[t].orch].context =
                       handle_session_ended(AppendAll(@, event, 1), event)]
    /\ threads' = [threads EXCEPT ![t] = [@ EXCEPT !.pc = "stop"]]
    /\ UNCHANGED <<call, steps, registry, mlock>>
    /\ OnlyManager

\* end_session: orchestrator.stop() up to the join of the loop's thread
EndStop(t) ==
    /\ threads[t].pc = "stop"
    /\ orchs' = [orchs EXCEPT ![threads[t].orch] = stop(@)]
    /\ threads' = [threads EXCEPT ![t] = [@ EXCEPT !.pc = "join"]]
    /\ UNCHANGED <<call, steps, registry, mlock>>
    /\ OnlyManager

\* end_session: transition_check_thread.join(timeout=5.0) returns, because the
\* loop has ended or because five seconds have passed inside one of its
\* iterations; then the session is deregistered and the call returns
EndJoin(t) ==
    /\ threads[t].pc = "join"
    /\ orchs[threads[t].orch].loop \in {"exited", "call"}
    /\ orchs' = [orchs EXCEPT ![threads[t].orch].transition_check_thread = FALSE]
    /\ registry' = [x \in DOMAIN registry \ {threads[t].session} |-> registry[x]]
    /\ IF threads[t].op = "shutdown"
       THEN /\ threads' = [threads EXCEPT ![t] =
                              [@ EXCEPT !.pc = "shutdown_loop",
                                        !.fn = "shutdown"]]
            /\ UNCHANGED <<call, mlock>>
       ELSE /\ mlock' = "free"
            /\ Return(t, "true", threads[t].ref, TRUE)
    /\ UNCHANGED steps
    /\ OnlyManager

\* process_livekit_event from the lock to the lookup
EnterLivekit(t) ==
    /\ Waiting(t, "process_livekit_event")
    /\ IF threads[t].session \notin DOMAIN registry
       THEN /\ Return(t, "false", threads[t].ref, FALSE)
            /\ UNCHANGED mlock
       ELSE /\ mlock' = t
            /\ threads' = [threads EXCEPT ![t] =
                              [@ EXCEPT !.pc = "livekit_event",
                                        !.orch = registry[threads[t].session]]]
            /\ UNCHANGED call
    /\ UNCHANGED <<steps, orchs, registry>>
    /\ OnlyManager

\* an event handed to a context that every orchestrator shares
LivekitEventShared(t) ==
    /\ threads[t].pc = "livekit_event"
    /\ orchs' = [o \in DOMAIN orchs |->
                    [orchs[o] EXCEPT !.context =
                        handle_event(@, LivekitMessageEvent(<<"c">>))]]
    /\ mlock' = "free"
    /\ Return(t, "true", threads[t].ref, TRUE)
    /\ UNCHANGED <<steps, registry>>
    /\ OnlyManager

\* process_livekit_event: orchestrator.process_livekit_event, which hands the
\* event to the livekit handler only
LivekitEvent(t) ==
    /\ threads[t].pc = "livekit_event"
    /\ orchs' = [orchs EXCEPT ![threads[t].orch].context =
                    handle_event(@, LivekitMessageEvent(<<"c">>))]
    /\ mlock' = "free"
    /\ Return(t, "true", threads[t].ref, TRUE)
    /\ UNCHANGED <<steps, registry>>
    /\ OnlyManager

\* shutdown: with self.lock, and for each session a call of end_session, which
\* begins with its own with self.lock
EnterShutdown(t) ==
    /\ \/ Waiting(t, "shutdown")
       \/ threads[t].pc = "shutdown_loop"
    /\ IF DOMAIN registry = {}
       THEN /\ mlock' = "free"
            /\ Return(t, "none", threads[t].ref, FALSE)
       ELSE /\ mlock' = t
            /\ \E s \in DOMAIN registry :
                  threads' = [threads EXCEPT ![t] =
                                 [@ EXCEPT !.pc = "lock", !.fn = "end_session",
                                           !.session = s]]
            /\ UNCHANGED call
    /\ UNCHANGED <<steps, orchs, registry>>
    /\ OnlyManager

\* a thread that holds a reference to an orchestrator hands it a user message
DirectProcessEvent(t, m) ==
    /\ steps < MaxCalls
    /\ threads[t].pc = "idle"
    /\ threads[t].ref # 0
    /\ \E creates \in BOOLEAN :
          orchs' = [orchs EXCEPT ![threads[t].ref] =
                       process_user_message(@, m, creates)]
    /\ call' = ManagerCall("process_event", t, "", "none", threads[t].ref, TRUE)
    /\ steps' = steps + 1
    /\ UNCHANGED <<threads, registry, mlock>>
    /\ OnlyManager

\* a thread that holds a reference to an orchestrator calls its
\* check_and_execute_transition
DirectCheck(t) ==
    /\ steps < MaxCalls
    /\ threads[t].pc = "idle"
    /\ threads[t].ref # 0
    /\ \E creates \in BOOLEAN :
          orchs' = [orchs EXCEPT ![threads[t].ref] = check_and_execute(@, creates)]
    /\ call' = ManagerCall("check_and_execute_transition", t, "", "none",
                           threads[t].ref, TRUE)
    /\ steps' = steps + 1
    /\ UNCHANGED <<threads, registry, mlock>>
    /\ OnlyManager

\* the background loop of an orchestrator: while self.running
LoopTest(o) ==
    /\ orchs[o].loop = "test"
    /\ orchs' = [orchs EXCEPT ![o].loop = IF orchs[o].running THEN "call"
                                              ELSE "exited"]
    /\ UNCHANGED <<call, steps, threads, registry, mlock>>
    /\ OnlyManager

\* the background loop of an orchestrator: check_and_execute_transition, sleep
LoopCall(o) ==
    /\ orchs[o].loop = "call"
    /\ \E creates \in BOOLEAN :
          orchs' = [orchs EXCEPT ![o] =
                       [check_and_execute(@, creates) EXCEPT !.loop = "test"]]
    /\ UNCHANGED <<call, steps, threads, registry, mlock>>
    /\ OnlyManager

CallerStep(t) ==
    \/ EnterCreate(t)
    \/ CreateStart(t)
    \/ CreateEvent(t)
    \/ GetOrchestrator(t)
    \/ GetActiveSessions(t)
    \/ EnterEnd(t)
    \/ EndEvent(t)
    \/ EndStop(t)
    \/ EndJoin(t)
    \/ EnterLivekit(t)
    \/ LivekitEvent(t)
    \/ EnterShutdown(t)

LoopStep(o) == LoopTest(o) \/ LoopCall(o)

NextManager ==
    \/ \E t \in CallerIds, op \in ManagerOps, s \in SessionIds,
          c \in ConversationIds \cup {MissingConversationId} : Call(t, op, s, c)
    \/ \E t \in CallerIds : CallerStep(t)
    \/ \E t \in CallerIds : DirectProcessEvent(t, <<"c">>)
    \/ \E t \in CallerIds : DirectCheck(t)
    \/ \E o \in DOMAIN orchs : LoopStep(o)

SpecManager == InitManager /\ [][NextManager]_vars

(* SpecCreate: the manager over a Conversation table that also holds a
   conversation whose initial agent is not among its agents *)

BrokenConversationId == 2

InitCreate ==
    /\ Transition = TransitionRows(ManagerStore)
    /\ BusinessRulesTransition = RulesMap(ManagerStore)
    /\ graph = BuildGraph(TransitionRows(ManagerStore))
    /\ context = InitialContext
    /\ controller = NewConversationController
    /\ emitted = <<>>
    /\ call = ManagerCall("none", "", "", "none", 0, FALSE)
    /\ steps = 0
    /\ threads = [t \in CallerIds |-> IdleCaller]
    /\ running = FALSE
    /\ data = <<>>
    /\ now = 0
    /\ orchs = <<>>
    /\ registry = <<>>
    /\ mlock = "free"
    /\ \E initial_agent_id \in (AgentIds \ MemberIds) \cup {DeletedAgentId} :
          Conversation =
             [c \in ConversationIds \cup {BrokenConversationId} |->
                 IF c = BrokenConversationId
                 THEN ConversationRow(initial_agent_id, MemberIds)
                 ELSE ConversationRow(InitialAgentId, MemberIds)]
    /\ lock = "free"
    /\ transition_check_thread = None
    /\ loops = <<>>

NextCreate ==
    \/ \E t \in CallerIds, op \in ManagerOps, s \in SessionIds,
          c \in DOMAIN Conversation \cup {MissingConversationId} :
             Call(t, op, s, c)
    \/ \E t \in CallerIds : CallerStep(t)
    \/ \E o \in DOMAIN orchs : LoopStep(o)

SpecCreate == InitCreate /\ [][NextCreate]_vars

\* the scheduler lets every thread that can take a step take one in the end
LoopRuns(o) == o \in DOMAIN orchs /\ LoopStep(o)

SpecManagerFair ==
    /\ InitManager
    /\ [][NextManager]_vars
    /\ \A t \in CallerIds : WF_vars(CallerStep(t))
    /\ \A o \in 1..MaxCalls : WF_vars(LoopRuns(o))

-----------------------------------------------------------------------------
(* SpecDispatch: EventManager.process_event handler by handler and callback by
   callback, on a context that update_context may have written to. The field
   replaced of the context names the keys whose value update_context has
   replaced by a string. *)

ReplacedKeys == {"events", "turn_count"}
ToolNames == {"search"}
ToolResults == {<<"ok">>, <<"ko">>}

AgentMessageEvent(a, m) ==
    [type |-> "agent_message", source |-> "agent",
     data |-> [agent_id |-> a, message |-> m]]

ToolResultEvent(tool_name, tool_result) ==
    [type |-> "tool_result", source |-> "agent",
     data |-> [agent_id |-> InitialAgentId, tool_name |-> tool_name,
               tool_result |-> tool_result]]

\* AgentOrchestrator.update_context(key, "text")
update_context(ctx, key) ==
    [ctx EXCEPT !.replaced = @ \cup {key},
                !.events = IF key = "events" THEN <<>> ELSE @,
                !.turn_count = IF key = "turn_count" THEN 0 ELSE @]

\* AgentEventHandler._handle_user_message up to context["turn_count"] += 1,
\* which raises TypeError on a string
handle_user_message_until_count(ctx, event) ==
    [ctx EXCEPT !.conversation = Append(@, [role |-> "user",
                                            content |-> event.data.message]),
                !.user_input = event.data.message]

\* AgentEventHandler._handle_agent_message (the per-agent message lists are
\* left out)
handle_agent_message(ctx, event) ==
    [ctx EXCEPT !.conversation = Append(@, [role |-> "assistant",
                                            content |-> event.data.message,
                                            agent_id |-> event.data.agent_id])]

\* AgentEventHandler._handle_tool_result (the per-agent tool calls are left out)
handle_tool_result(ctx, event) ==
    LET name == event.data.tool_name
        had == IF name \in DOMAIN ctx.tool_results THEN ctx.tool_results[name]
               ELSE <<>>
    IN [ctx EXCEPT !.tool_results =
                      [n \in DOMAIN @ \cup {name} |->
                          IF n = name THEN Append(had, event.data.tool_result)
                          ELSE @[n]],
                   !.last_tool_result = event.data.tool_result]

\* the callback each handler registers itself for an event type
OwnCallbacks(h, type) ==
    IF h = "session" /\ type = "session_created" THEN <<"_handle_session_created">>
    ELSE IF h = "session" /\ type = "session_ended" THEN <<"_handle_session_ended">>
    ELSE IF h = "agent" /\ type = "agent_started" THEN <<"_handle_agent_started">>
    ELSE IF h = "agent" /\ type = "user_message" THEN <<"_handle_user_message">>
    ELSE IF h = "agent" /\ type = "agent_message" THEN <<"_handle_agent_message">>
    ELSE IF h = "agent" /\ type = "tool_result" THEN <<"_handle_tool_result">>
    ELSE <<>>

\* the callback _setup_transition_checking registers on the agent handler
CheckCallbacks(h, type) ==
    IF h = "agent" /\ type \in {"user_message", "tool_result", "agent_message"}
    THEN <<"_check_transition_after_event">>
    ELSE <<>>

CallbacksCheckFirst(h, type) == CheckCallbacks(h, type) \o OwnCallbacks(h, type)

\* EventHandler.callbacks[event.type]: in registration order, the handler's
\* own callback from its __init__, then the orchestrator's
Callbacks(h, type) == OwnCallbacks(h, type) \o CheckCallbacks(h, type)

\* the state of one process_event call: the context and controller, the
\* handlers and callbacks invoked so far, the exceptions caught, whether one
\* left the call, and the context the transition check read
Dispatching(ctx, ctrl) ==
    [context |-> ctx, controller |-> ctrl, invoked |-> <<>>, caught |-> 0,
     propagated |-> FALSE, check_ran |-> FALSE, checked |-> ctx]

\* one callback inside the try of EventHandler.handle_event
RunCallback(st, name, event, creates) ==
    LET on == [st EXCEPT !.invoked = Append(@, name)]
        ctx == st.context
    IN CASE name = "_handle_user_message" ->
              IF "turn_count" \in ctx.replaced
              THEN [on EXCEPT !.context = handle_user_message_until_count(ctx, event),
                              !.caught = @ + 1]
              ELSE [on EXCEPT !.context = handle_user_message(ctx, event)]
         [] name = "_handle_agent_message" ->
              [on EXCEPT !.context = handle_agent_message(ctx, event)]
         [] name = "_handle_tool_result" ->
              [on EXCEPT !.context = handle_tool_result(ctx, event)]
         [] name = "_handle_agent_started" ->
              [on EXCEPT !.context = handle_agent_started(ctx, event)]
         [] name = "_handle_session_created" ->
              [on EXCEPT !.context = handle_session_created(ctx, event)]
         [] name = "_handle_session_ended" ->
              [on EXCEPT !.context = handle_session_ended(ctx, event)]
         [] name = "_check_transition_after_event" ->
              CHOOSE after \in
                 {[on EXCEPT !.context = done.context,
                             !.controller = done.controller,
                             !.caught = IF done.outcome = "raised" THEN @ + 1
                                        ELSE @,
                             !.check_ran = TRUE,
                             !.checked = ctx] :
                  done \in {check_and_execute_transition(ctx, st.controller,
                                                         <<>>, creates)}} : TRUE

\* the callbacks of one handler from position i on; y is st, taken once
RECURSIVE RunCallbacks(_, _, _, _, _)
RunCallbacks(st, cbs, i, event, creates) ==
    IF i > Len(cbs) THEN st
    ELSE CHOOSE after \in
            {RunCallbacks(RunCallback(y, cbs[i], event, creates), cbs, i + 1,
                          event, creates) : y \in {st}} : TRUE

\* EventManager.process_event: for handler in self.handlers.values():
\* handler.handle_event(event, self.context), with no try around it;
\* context["events"].append raises AttributeError on a string
RECURSIVE RunHandlers(_, _, _, _)
RunHandlers(st, h, event, creates) ==
    IF h > Len(Handlers) THEN st
    ELSE CHOOSE after \in
            {IF "events" \in y.context.replaced
             THEN [y EXCEPT !.invoked = Append(@, Handlers[h]),
                            !.propagated = TRUE]
             ELSE RunHandlers(
                      RunCallbacks([y EXCEPT !.invoked = Append(@, Handlers[h]),
                                             !.context = handle_event(@, event)],
                                   Callbacks(Handlers[h], event.type), 1, event,
                                   creates),
                      h + 1, event, creates) : y \in {st}} : TRUE

process_event(ctx, ctrl, event, creates) ==
    RunHandlers(Dispatching(ctx, ctrl), 1, event, creates)

\* the events the threads of a session hand to process_event
DispatchedEvents ==
    {UserMessageEvent(<<"c">>), UserMessageEvent(<<"x">>),
     AgentMessageEvent(InitialAgentId, <<"m">>),
     AgentStartedEvent(2)}
    \cup {ToolResultEvent(n, r) : n \in ToolNames, r \in ToolResults}

\* what a process_event call leaves behind for the claims to read
DispatchCall(event, st, before) ==
    [op |-> "process_event", event |-> event, invoked |-> st.invoked,
     caught |-> st.caught, propagated |-> st.propagated,
     check_ran |-> st.check_ran, checked |-> st.checked, before |-> before]

\* the transitions of the conversation the events are dispatched in
DispatchPool ==
    { Plain(Row(1, 2, "user_input", Pattern(<<"c">>), 20)),
      WithRules(Row(1, 4, "business_rules", NoData, 10), RulesTo(<<"x">>, 4)) }

InitDispatch ==
    /\ \E store \in [1..NumTransitions -> DispatchPool] :
          /\ Transition = TransitionRows(store)
          /\ BusinessRulesTransition = RulesMap(store)
          /\ graph = BuildGraph(TransitionRows(store))
    /\ context = InitialContext
    /\ controller = NewConversationController
    /\ emitted = <<>>
    /\ call = [op |-> "none"]
    /\ steps = 0
    /\ threads = <<>>
    /\ running = FALSE
    /\ ApartInit

OnlyDispatch == UNCHANGED <<Transition, BusinessRulesTransition, graph, emitted,
                            threads, running, Apart>>

UpdateContext(key) ==
    /\ steps < MaxSteps
    /\ key \notin context.replaced
    /\ context' = update_context(context, key)
    /\ call' = [op |-> "update_context", key |-> key]
    /\ steps' = steps + 1
    /\ UNCHANGED controller
    /\ OnlyDispatch

ProcessEvent(event) ==
    /\ steps < MaxSteps
    /\ \E creates \in BOOLEAN :
          \E st \in {process_event(context, controller, event, creates)} :
             /\ context' = st.context
             /\ controller' = st.controller
             /\ call' = DispatchCall(event, st, context)
    /\ steps' = steps + 1
    /\ OnlyDispatch

NextDispatch ==
    \/ \E key \in ReplacedKeys : UpdateContext(key)
    \/ \E event \in DispatchedEvents : ProcessEvent(event)

SpecDispatch == InitDispatch /\ [][NextDispatch]_vars

-----------------------------------------------------------------------------
(* SpecMalformed: check_transitions over stores in which a condition payload
   may be malformed: a user_input pattern that is a number, a rule-set that
   names a variable or an operator the engine does not know *)

RulesUnknownVariable(a) ==
    <<Rule(AllOf(<<Leaf("no_such_variable", "contains", <<"c">>)>>),
           <<ToAgent(a)>>)>>

RulesUnknownOperator(a) ==
    <<Rule(AllOf(<<Leaf("user_input", "sounds_like", <<"c">>)>>),
           <<ToAgent(a)>>)>>

MalformedPool ==
    { Plain(Row(1, 2, "user_input", Pattern(NotAString), 30)),
      WithRules(Row(1, 3, "business_rules", NoData, 30), RulesUnknownVariable(3)),
      WithRules(Row(1, 2, "business_rules", NoData, 30), RulesUnknownOperator(2)),
      Plain(Row(1, 3, "user_input", Pattern(<<"c">>), 20)),
      WithRules(Row(1, 2, "business_rules", NoData, 20), RulesTo(<<"c">>, 2)),
      Plain(Row(1, 2, "user_input", Pattern(<<"m">>), 10)) }

MalformedStores == [1..NumTransitions -> MalformedPool]

InitMalformed ==
    /\ \E store \in MalformedStores :
          /\ Transition = TransitionRows(store)
          /\ BusinessRulesTransition = RulesMap(store)
          /\ graph = BuildGraph(TransitionRows(store))
    /\ \E m \in Msgs \cup {Absent} :
          context = [InitialContext EXCEPT !.user_input = m, !.turn_count = 1]
    /\ controller = NewConversationController
    /\ emitted = <<>>
    /\ call = NoCall
    /\ steps = 0
    /\ threads = <<>>
    /\ running = FALSE
    /\ ApartInit

\* each store and context is queried once
NextMalformed ==
    /\ call.op = "none"
    /\ \E a \in {InitialAgentId} :
        \/ ControllerCheck(a)
        \/ GraphCheck(a)
        \/ BusinessRulesGraphCheck(a)

SpecMalformed == InitMalformed /\ [][NextMalformed]_vars

-----------------------------------------------------------------------------
(* SpecBuild: AgentGraphManager(conversation_id, db) and AgentOrchestrator(db,
   conversation_id) constructed over Conversation tables in which the initial
   agent may or may not be one of Conversation.agents.  The foreign key keeps
   initial_agent_id a row of Agent; nothing keeps it in the association. *)

MemberSets == {MemberIds, {2, 3}, {1, 2}, {}}

ConversationTables ==
    [ConversationIds ->
        {ConversationRow(i, m) : i \in AgentIds, m \in MemberSets}]

BuildCall(op, conversation_id, manager, agent, raised) ==
    [op |-> op, conversation_id |-> conversation_id, manager |-> manager,
     agent |-> agent, raised |-> raised]

InitBuild ==
    /\ \E store \in Stores :
          /\ Transition = TransitionRows(store)
          /\ BusinessRulesTransition = RulesMap(store)
    /\ graph = <<>>
    /\ context = InitialContext
    /\ controller = NewConversationController
    /\ emitted = <<>>
    /\ call = BuildCall("none", None, build_graph(<<>>, None, <<>>), None, "none")
    /\ steps = 0
    /\ threads = <<>>
    /\ running = FALSE
    /\ data = <<>>
    /\ now = 0
    /\ orchs = <<>>
    /\ registry = <<>>
    /\ mlock = "free"
    /\ Conversation \in ConversationTables
    /\ lock = "free"
    /\ transition_check_thread = None
    /\ loops = <<>>

OnlyBuild == UNCHANGED <<Transition, BusinessRulesTransition, context, controller,
                         emitted, steps, threads, running, data, now, orchs,
                         registry, mlock, Conversation, Lifecycle>>

\* manager = AgentGraphManager(c, db)
Build(c) ==
    /\ call.op = "none"
    /\ LET manager == build_graph(Conversation, c, Transition)
       IN /\ call' = BuildCall("build", c, manager, None, manager.raised)
          /\ graph' = manager.graph
    /\ OnlyBuild

\* manager.get_initial_agent() on a manager that was built
GetInitialAgent ==
    /\ call.op = "build"
    /\ call.raised = "none"
    /\ LET initial_agent == get_initial_agent(call.manager)
       IN call' = BuildCall("get_initial_agent", call.conversation_id,
                            call.manager, initial_agent.agent,
                            initial_agent.raised)
    /\ UNCHANGED graph
    /\ OnlyBuild

\* AgentOrchestrator(db, c)
Construct(c) ==
    /\ call.op = "none"
    /\ LET manager == build_graph(Conversation, c, Transition)
       IN /\ call' = BuildCall("orchestrator", c, manager, None,
                               orchestrator_init(Conversation, c, Transition))
          /\ graph' = manager.graph
    /\ OnlyBuild

NextBuild ==
    \/ \E c \in ConversationIds \cup {MissingConversationId} :
          \/ Build(c)
          \/ Construct(c)
    \/ GetInitialAgent

SpecBuild == InitBuild /\ [][NextBuild]_vars

-----------------------------------------------------------------------------
(* SpecLifecycle: one orchestrator, a caller that makes start() and stop()
   calls one after another, and the background threads start() has spawned.
   stop() holds self.lock while it joins; the loop takes no lock.  A join
   returns when the thread has ended, or after 5 seconds: the loop sleeps 1
   second between calls, so the wait runs out only while the thread is inside
   check_and_execute_transition. *)

MaxStarts == 3

LifecycleStore ==
    <<Plain(Row(1, 2, "user_input", Pattern(<<"c">>), 20)),
      Plain(Row(2, 3, "user_input", Pattern(<<"m">>), 10)),
      Plain(Row(2, 2, "user_input", Pattern(<<"c">>), 20))>>

\* threading.Thread(target=self._transition_check_loop).start()
NewLoop == [pc |-> "test", stopped |-> FALSE]

\* the caller is in no call
Outside == [pc |-> "idle"]

LifecycleCall(op, acted, timed_out, before) ==
    [op |-> op, acted |-> acted, timed_out |-> timed_out, before |-> before]

\* the threads that have not returned from _transition_check_loop
Live(ls) == {i \in DOMAIN ls : ls[i].pc # "exited"}

InitLifecycle ==
    /\ Transition = TransitionRows(LifecycleStore)
    /\ BusinessRulesTransition = RulesMap(LifecycleStore)
    /\ graph = BuildGraph(TransitionRows(LifecycleStore))
    /\ \E m \in Msgs \cup {Absent} :
          context = [InitialContext EXCEPT !.user_input = m]
    /\ controller = NewConversationController
    /\ emitted = <<>>
    /\ call = LifecycleCall("none", FALSE, FALSE, {})
    /\ steps = 0
    /\ threads = Outside
    /\ running = FALSE
    /\ ApartInit

OnlyLifecycle == UNCHANGED <<Transition, BusinessRulesTransition, graph, data,
                             now, orchs, registry, mlock, Conversation>>

\* AgentOrchestrator.start(), the whole with self.lock block
StartCall ==
    /\ threads.pc = "idle"
    /\ steps < MaxStarts
    /\ steps' = steps + 1
    /\ IF running
       THEN /\ call' = LifecycleCall("start", FALSE, FALSE, Live(loops))
            /\ UNCHANGED <<running, transition_check_thread, loops>>
       ELSE /\ running' = TRUE
            /\ loops' = Append(loops, NewLoop)
            /\ transition_check_thread' = Len(loops) + 1
            /\ call' = LifecycleCall("start", TRUE, FALSE, Live(loops))
    /\ UNCHANGED <<context, controller, emitted, threads, lock>>
    /\ OnlyLifecycle

\* AgentOrchestrator.stop() up to the join
StopCall ==
    /\ threads.pc = "idle"
    /\ steps < MaxStarts
    /\ steps' = steps + 1
    /\ IF ~running
       THEN /\ call' = LifecycleCall("stop", FALSE, FALSE, Live(loops))
            /\ UNCHANGED <<running, transition_check_thread, threads, lock>>
       ELSE /\ running' = FALSE
            /\ IF transition_check_thread # None
               THEN /\ threads' = [pc |-> "join"]
                    /\ lock' = "held"
                    /\ UNCHANGED <<call, transition_check_thread>>
               ELSE /\ call' = LifecycleCall("stop", TRUE, FALSE, Live(loops))
                    /\ UNCHANGED <<transition_check_thread, threads, lock>>
    /\ UNCHANGED <<context, controller, emitted, loops>>
    /\ OnlyLifecycle

\* AgentOrchestrator.stop(): join(timeout=5.0) returns, the handle is dropped
StopJoin ==
    /\ threads.pc = "join"
    /\ loops[transition_check_thread].pc \in {"exited", "call"}
    /\ call' = LifecycleCall("stop", TRUE,
                             loops[transition_check_thread].pc # "exited",
                             Live(loops))
    /\ transition_check_thread' = None
    /\ threads' = Outside
    /\ lock' = "free"
    /\ UNCHANGED <<context, controller, emitted, steps, running, loops>>
    /\ OnlyLifecycle

\* a loop that never looks at self.running
WhileTrue(i) ==
    /\ loops[i].pc = "test"
    /\ loops' = [loops EXCEPT ![i].pc = "call"]
    /\ UNCHANGED <<context, controller, emitted, call, steps, threads, running,
                   lock, transition_check_thread>>
    /\ OnlyLifecycle

\* _transition_check_loop of thread i: while self.running
WhileRunning(i) ==
    /\ loops[i].pc = "test"
    /\ loops' = [loops EXCEPT ![i] = IF running THEN [@ EXCEPT !.pc = "call"]
                                      ELSE [pc |-> "exited", stopped |-> TRUE]]
    /\ UNCHANGED <<context, controller, emitted, call, steps, threads, running,
                   lock, transition_check_thread>>
    /\ OnlyLifecycle

\* _transition_check_loop of thread i: check_and_execute_transition(); an
\* exception is logged and the loop goes round without sleeping
LoopCheck(i) ==
    /\ loops[i].pc = "call"
    /\ \E creates \in BOOLEAN :
          \E done \in {check_and_execute_transition(context, controller,
                                                    emitted, creates)} :
             /\ context' = done.context
             /\ controller' = done.controller
             /\ emitted' = done.emitted
             /\ loops' = [loops EXCEPT ![i].pc = IF done.outcome = "raised"
                                                 THEN "test" ELSE "sleep"]
    /\ UNCHANGED <<call, steps, threads, running, lock, transition_check_thread>>
    /\ OnlyLifecycle

\* _transition_check_loop of thread i: time.sleep(1.0) returns
LoopSleep(i) ==
    /\ loops[i].pc = "sleep"
    /\ loops' = [loops EXCEPT ![i].pc = "test"]
    /\ UNCHANGED <<context, controller, emitted, call, steps, threads, running,
                   lock, transition_check_thread>>
    /\ OnlyLifecycle

LoopThread(i) == WhileRunning(i) \/ LoopCheck(i) \/ LoopSleep(i)

NextLifecycle ==
    \/ StartCall
    \/ StopCall
    \/ StopJoin
    \/ \E i \in DOMAIN loops : LoopThread(i)

SpecLifecycle == InitLifecycle /\ [][NextLifecycle]_vars

\* a spawned thread is scheduled, its call and its sleep return; the join of
\* stop() returns once the thread has ended or the 5 seconds have passed
LoopThreadRuns(i) == i \in DOMAIN loops /\ LoopThread(i)

SpecLifecycleFair ==
    /\ InitLifecycle
    /\ [][NextLifecycle]_vars
    /\ \A i \in 1..MaxStarts : WF_vars(LoopThreadRuns(i))
    /\ WF_vars(StopJoin)

-----------------------------------------------------------------------------
(* SpecCondition: AgentGraphManager._check_condition on the contexts the
   handlers and update_context leave behind, for conditions of the kinds
   event, tool_result, user_input and agent_decision *)

MaxIngested == 2

EventCondition(event_type, event_data) ==
    [condition_type |-> "event",
     condition_data |-> [event_type |-> event_type, event_data |-> event_data]]

ToolResultCondition(tool_id, result_key) ==
    [condition_type |-> "tool_result",
     condition_data |-> [tool_id |-> tool_id, result_key |-> result_key,
                         expected_value |-> <<"ok">>, operator |-> "eq"]]

UserInputCondition(pattern) ==
    [condition_type |-> "user_input", condition_data |-> Pattern(pattern)]

AgentDecisionCondition(decision_key, expected_value) ==
    [condition_type |-> "agent_decision",
     condition_data |-> [decision_key |-> decision_key,
                         expected_value |-> expected_value]]

NoEventData == [key \in {} |-> ""]

Conditions ==
    <<EventCondition("user_message", NoEventData),
      EventCondition("user_message", [message |-> <<"c">>]),
      EventCondition("user_message", [source |-> "user"]),
      EventCondition("tool_result", [tool_name |-> "search"]),
      EventCondition("session_created", NoEventData),
      ToolResultCondition(7, <<"status">>),
      ToolResultCondition(7, <<"ok">>),
      ToolResultCondition(3, <<"status">>),
      UserInputCondition(<<"c">>),
      UserInputCondition(<<"C">>),
      UserInputCondition(<<"m", "c">>),
      UserInputCondition(EmptyStr),
      AgentDecisionCondition("transition_to", "combat"),
      AgentDecisionCondition("mood", "combat")>>

\* the values update_context("agent_decisions", ...) is given
Decisions == <<[transition_to |-> "combat"], [transition_to |-> "market"]>>

ConditionCall(op, condition, result, raised, before) ==
    [op |-> op, condition |-> condition, result |-> result, raised |-> raised,
     before |-> before]

InitCondition ==
    /\ Transition = <<>>
    /\ BusinessRulesTransition = <<>>
    /\ graph = <<>>
    /\ context = InitialContext
    /\ controller = NewConversationController
    /\ emitted = <<>>
    /\ call = ConditionCall("none", UserInputCondition(EmptyStr), FALSE, FALSE,
                            InitialContext)
    /\ steps = 0
    /\ threads = <<>>
    /\ running = FALSE
    /\ ApartInit

OnlyCondition == UNCHANGED <<Transition, BusinessRulesTransition, graph,
                             controller, emitted, threads, running, Apart>>

\* process_event(USER_MESSAGE): the three handlers, then _handle_user_message
IngestUserMessage(m) ==
    /\ steps < MaxIngested
    /\ LET event == UserMessageEvent(m) IN
       context' = handle_user_message(AppendAll(context, event, 1), event)
    /\ steps' = steps + 1
    /\ UNCHANGED call
    /\ OnlyCondition

\* process_event(TOOL_RESULT): the three handlers, then _handle_tool_result
IngestToolResult(tool_name, tool_result) ==
    /\ steps < MaxIngested
    /\ LET event == ToolResultEvent(tool_name, tool_result) IN
       context' = handle_tool_result(AppendAll(context, event, 1), event)
    /\ steps' = steps + 1
    /\ UNCHANGED call
    /\ OnlyCondition

\* orchestrator.update_context("agent_decisions", d)
UpdateAgentDecisions(d) ==
    /\ steps < MaxIngested
    /\ context' = [context EXCEPT !.agent_decisions = d]
    /\ steps' = steps + 1
    /\ UNCHANGED call
    /\ OnlyCondition

\* _check_condition(condition_type, condition_data, context)
Evaluate(condition) ==
    /\ call' = ConditionCall("check_condition", condition,
                  CheckCondition(condition.condition_type,
                                 condition.condition_data, context),
                  ConditionRaises(condition.condition_type,
                                  condition.condition_data, context),
                  context)
    /\ UNCHANGED <<context, steps>>
    /\ OnlyCondition

NextCondition ==
    \/ \E m \in {<<"c">>, <<"M", "C">>, <<"x">>} : IngestUserMessage(m)
    \/ \E tool_name \in {"search", "7"},
          tool_result \in {<<"ok">>, <<"ko">>, Dict(<<"status">>, <<"ok">>)} :
          IngestToolResult(tool_name, tool_result)
    \/ \E n \in DOMAIN Decisions : UpdateAgentDecisions(Decisions[n])
    \/ \E n \in DOMAIN Conditions : Evaluate(Conditions[n])

SpecCondition == InitCondition /\ [][NextCondition]_vars

(* SpecStore: the functions that write and read the BusinessRulesTransition
   table. Here the table is its rows, in insertion order, so that two rows
   of one transition are a state the model can tell from one *)

MaxApiCalls == 4
MissingTransitionId == 3

StoredTransitions ==
    [1..2 -> { Row(1, 2, "user_input", Pattern(<<"c">>), 20),
               Row(1, 3, "business_rules", NoData, 10) }]

Definitions == { RulesTo(<<"c">>, 2), RulesTo(<<"m">>, 3) }

BusinessRulesTransitionRow(transition_id, rules_definition) ==
    [transition_id |-> transition_id, rules_definition |-> rules_definition]

\* what .first() returns when no row matches
NoRow == BusinessRulesTransitionRow(None, <<>>)

\* db.query(BusinessRulesTransition).filter(transition_id == ...).first()
get_business_rules_transition(table, transition_id) ==
    LET found == {i \in DOMAIN table : table[i].transition_id = transition_id}
    IN IF found = {} THEN NoRow
       ELSE table[CHOOSE i \in found : \A j \in found : i <= j]

\* a create that adds a row without looking for an existing one
create_always_adds(transitions, table, transition_id, rules_definition) ==
    IF transition_id \notin DOMAIN transitions
    THEN [raised |-> TRUE, Transition |-> transitions,
          BusinessRulesTransition |-> table, returned |-> NoRow]
    ELSE LET br_transition ==
                 BusinessRulesTransitionRow(transition_id, rules_definition)
         IN [raised |-> FALSE,
             Transition |->
                 [transitions EXCEPT
                     ![transition_id].condition_type = "business_rules"],
             BusinessRulesTransition |-> Append(table, br_transition),
             returned |-> br_transition]

create_business_rules_transition(transitions, table, transition_id, rules_definition) ==
    IF transition_id \notin DOMAIN transitions
    THEN [raised |-> TRUE, Transition |-> transitions,
          BusinessRulesTransition |-> table, returned |-> NoRow]
    ELSE LET existing == get_business_rules_transition(table, transition_id)
             br_transition ==
                 BusinessRulesTransitionRow(transition_id, rules_definition)
             at == CHOOSE i \in DOMAIN table : table[i] = existing
         IN IF existing # NoRow
            THEN [raised |-> FALSE, Transition |-> transitions,
                  BusinessRulesTransition |->
                      [table EXCEPT ![at].rules_definition = rules_definition],
                  returned |-> br_transition]
            ELSE [raised |-> FALSE,
                  Transition |->
                      [transitions EXCEPT
                          ![transition_id].condition_type = "business_rules"],
                  BusinessRulesTransition |-> Append(table, br_transition),
                  returned |-> br_transition]

\* db.delete of the row get_business_rules_transition found
delete_business_rules_transition(table, transition_id) ==
    LET br_transition == get_business_rules_transition(table, transition_id)
        at == CHOOSE i \in DOMAIN table : table[i] = br_transition
        Kept(i) == IF i < at THEN table[i] ELSE table[i + 1]
    IN IF br_transition = NoRow
       THEN [BusinessRulesTransition |-> table, returned |-> FALSE]
       ELSE [BusinessRulesTransition |->
                 [i \in 1..(Len(table) - 1) |-> Kept(i)],
             returned |-> TRUE]

StoreCall(op, transition_id, rules_definition, returned, raised, before) ==
    [op |-> op, transition_id |-> transition_id,
     rules_definition |-> rules_definition, returned |-> returned,
     raised |-> raised, before |-> before]

InitStore ==
    /\ Transition \in StoredTransitions
    /\ BusinessRulesTransition = <<>>
    /\ graph = <<>>
    /\ context = InitialContext
    /\ controller = NewConversationController
    /\ emitted = <<>>
    /\ call = StoreCall("none", None, <<>>, NoRow, FALSE, <<>>)
    /\ steps = 0
    /\ threads = <<>>
    /\ running = FALSE
    /\ ApartInit

OnlyStore == UNCHANGED <<graph, context, controller, emitted, threads, running,
                         Apart>>

CreateRules(transition_id, rules_definition) ==
    /\ steps < MaxApiCalls
    /\ \E done \in {create_business_rules_transition(
                        Transition, BusinessRulesTransition, transition_id,
                        rules_definition)} :
          /\ Transition' = done.Transition
          /\ BusinessRulesTransition' = done.BusinessRulesTransition
          /\ call' = StoreCall("create", transition_id, rules_definition,
                               done.returned, done.raised,
                               BusinessRulesTransition)
    /\ steps' = steps + 1
    /\ OnlyStore

GetRules(transition_id) ==
    /\ steps < MaxApiCalls
    /\ call' = StoreCall("get", transition_id, <<>>,
                         get_business_rules_transition(BusinessRulesTransition,
                                                       transition_id),
                         FALSE, BusinessRulesTransition)
    /\ steps' = steps + 1
    /\ UNCHANGED <<Transition, BusinessRulesTransition>>
    /\ OnlyStore

DeleteRules(transition_id) ==
    /\ steps < MaxApiCalls
    /\ \E done \in {delete_business_rules_transition(BusinessRulesTransition,
                                                     transition_id)} :
          /\ BusinessRulesTransition' = done.BusinessRulesTransition
          /\ call' = StoreCall("delete", transition_id, <<>>, done.returned,
                               FALSE, BusinessRulesTransition)
    /\ steps' = steps + 1
    /\ UNCHANGED Transition
    /\ OnlyStore

NextStore ==
    \/ \E t \in 1..MissingTransitionId, d \in Definitions : CreateRules(t, d)
    \/ \E t \in 1..MissingTransitionId : GetRules(t)
    \/ \E t \in 1..MissingTransitionId : DeleteRules(t)

SpecStore == InitStore /\ [][NextStore]_vars

-----------------------------------------------------------------------------

(* SpecLivekit: one orchestrator that is handed events through process_event
   and Livekit events through process_livekit_event *)

\* LivekitEventHandler._create_event_mapping and .get(type, EventType.CUSTOM)
event_mapping(event_type_str) ==
    CASE event_type_str = "session:created" -> "session_created"
      [] event_type_str = "session:ended" -> "session_ended"
      [] event_type_str = "agent:started" -> "agent_started"
      [] event_type_str = "message:received" -> "user_message"
      [] event_type_str = "message:sent" -> "agent_message"
      [] event_type_str = "tool:result" -> "tool_result"
      [] OTHER -> "custom"

\* the Livekit events a session receives, as objects with attributes
LivekitEvents ==
    { [type |-> "message:received", message |-> <<"c">>],
      [type |-> "message:received", message |-> <<"x">>],
      [type |-> "tool:result", agent_id |-> InitialAgentId,
       tool_name |-> "search", tool_result |-> <<"ok">>] }

\* the EventData process_livekit_event makes of a Livekit event: every
\* attribute but type goes into data
FromLivekit(livekit_event) ==
    [type |-> event_mapping(livekit_event.type), source |-> "livekit",
     data |-> [key \in DOMAIN livekit_event \ {"type"} |-> livekit_event[key]]]

\* EventManager.process_livekit_event: the first LivekitEventHandler among the
\* handlers, and its handle_event only
process_livekit_event(ctx, ctrl, livekit_event, creates) ==
    LET event == FromLivekit(livekit_event)
        st == Dispatching(ctx, ctrl)
    IN IF "events" \in ctx.replaced
       THEN [st EXCEPT !.invoked = <<"livekit">>, !.propagated = TRUE]
       ELSE RunCallbacks([st EXCEPT !.invoked = <<"livekit">>,
                                    !.context = handle_event(@, event)],
                         Callbacks("livekit", event.type), 1, event, creates)

LivekitCall(livekit_event, event, st, before) ==
    [op |-> "process_livekit_event", livekit_event |-> livekit_event,
     event |-> event, invoked |-> st.invoked, caught |-> st.caught,
     propagated |-> st.propagated, check_ran |-> st.check_ran,
     checked |-> st.checked, before |-> before]

ProcessLivekitEvent(livekit_event) ==
    /\ steps < MaxSteps
    /\ \E creates \in BOOLEAN :
          \E st \in {process_livekit_event(context, controller, livekit_event,
                                           creates)} :
             /\ context' = st.context
             /\ controller' = st.controller
             /\ call' = LivekitCall(livekit_event, FromLivekit(livekit_event),
                                    st, context)
    /\ steps' = steps + 1
    /\ OnlyDispatch

NextLivekit ==
    \/ \E event \in {UserMessageEvent(<<"c">>), UserMessageEvent(<<"x">>),
                     ToolResultEvent("search", <<"ok">>)} : ProcessEvent(event)
    \/ \E livekit_event \in LivekitEvents : ProcessLivekitEvent(livekit_event)

SpecLivekit == InitDispatch /\ [][NextLivekit]_vars

-----------------------------------------------------------------------------

-----------------------------------------------------------------------------
(* What the claims speak of, stated over the store and not over the loops *)

\* the rows leaving agent a, as the store holds them
Outgoing(a) == {i \in DOMAIN Transition : Transition[i].source_agent_id = a}

HasRules(i) == i \in DOMAIN BusinessRulesTransition

Satisfied(i, r, ctx) ==
    check_conditions_recursively(BusinessRulesTransition[i][r].conditions, ctx)

\* the first rule of transition i's rule-set whose condition tree holds, 0 if none
FirstSatisfied(i, ctx) ==
    LET sat == {r \in DOMAIN BusinessRulesTransition[i] : Satisfied(i, r, ctx)}
    IN IF sat = {} THEN 0 ELSE CHOOSE r \in sat : \A q \in sat : r <= q

ActionsOf(i, r) == BusinessRulesTransition[i][r].actions

ToAgentActions(i, r) ==
    {j \in DOMAIN ActionsOf(i, r) : ActionsOf(i, r)[j].name = "transition_to_agent"}

\* the rule-set of transition i triggers a transition for ctx
Triggers(i, ctx) ==
    /\ Transition[i].condition_type = "business_rules"
    /\ HasRules(i)
    /\ FirstSatisfied(i, ctx) # 0
    /\ ToAgentActions(i, FirstSatisfied(i, ctx)) # {}

\* the condition of transition i matches ctx, whatever its kind
Matches(i, ctx) ==
    IF Transition[i].condition_type = "business_rules" THEN Triggers(i, ctx)
    ELSE CheckCondition(Transition[i].condition_type,
                        Transition[i].condition_data, ctx)

\* the agent transition i leads to when it matches
FirstToAgent(i, ctx) ==
    LET r == FirstSatisfied(i, ctx)
        js == ToAgentActions(i, r)
    IN ActionsOf(i, r)[CHOOSE j \in js : \A k \in js : j <= k].agent_id

LastToAgent(i, ctx) ==
    LET r == FirstSatisfied(i, ctx)
        js == ToAgentActions(i, r)
    IN ActionsOf(i, r)[CHOOSE j \in js : \A k \in js : j >= k].agent_id

-----------------------------------------------------------------------------
(* Claims about the queries (SpecGraph) *)

Priority(i) == Transition[i].priority

\* the agents a matching transition i may hand over to: the row's target, or
\* the agent its rule-set named
TargetsOf(i, ctx) ==
    {Transition[i].target_agent_id} \cup
    (IF Transition[i].condition_type = "business_rules"
     THEN {FirstToAgent(i, ctx), LastToAgent(i, ctx)} ELSE {})

\* the outgoing transitions of agent a the graph manager holds: the
\* business_rules rows of the store and the edges of its graph
Held(a) ==
    {i \in Outgoing(a) :
        \/ Transition[i].condition_type = "business_rules"
        \/ \E e \in DOMAIN graph : graph[e].id = i}

\* C1: the target BusinessRulesAgentGraphManager.check_transitions returns is that
\* of a matching outgoing transition that no matching outgoing transition exceeds
\* in priority, whatever the condition kinds; with no match there is no target.
C1_HighestPriorityMatchWins ==
    (call.op = "check_transitions" /\ ~call.raised) =>
        LET ctx == call.before
            m == {i \in Held(call.agent_id) : Matches(i, ctx)}
            top == {i \in m : \A k \in m : Priority(k) <= Priority(i)}
        IN IF m = {} THEN call.target = None
           ELSE \E i \in top : call.target \in TargetsOf(i, ctx)

\* the actions a check executed for transition i, as the trace records them
ExecutedFor(i) ==
    LET Mine(e) == e.transition = i IN SelectSeq(call.result.executed, Mine)

\* C6: for every rule-set a check ran, exactly the actions of its first satisfied
\* rule executed, in order, and no action of a later rule, even a satisfied one.
C6_StopsAtFirstSatisfiedRule ==
    (call.op \in {"controller_check", "clean_controller_check"} /\ ~call.raised) =>
        \A i \in DOMAIN BusinessRulesTransition :
            LET r == FirstSatisfied(i, call.before)
                ex == ExecutedFor(i)
            IN \/ ex = <<>>
               \/ /\ r # 0
                  /\ ex = [j \in DOMAIN ActionsOf(i, r) |->
                              [transition |-> i, rule |-> r, action |-> j]]

\* C6 witness: a rule-set with two satisfied rules ran, and actions executed.
C6_Witness ==
    /\ call.op = "controller_check"
    /\ \E i \in DOMAIN BusinessRulesTransition :
          /\ Cardinality({r \in DOMAIN BusinessRulesTransition[i] :
                             Satisfied(i, r, call.before)}) >= 2
          /\ ExecutedFor(i) # <<>>

\* the transition whose rule-set set the target a controller check returned
Chosen == call.result.executed[Len(call.result.executed)].transition

\* C7: the target TransitionController.check_transitions reports is the agent of
\* the first transition_to_agent call of the rule-set evaluation, not a later one.
C7_FirstTargetKept ==
    (call.op \in {"controller_check", "clean_controller_check"}
       /\ "next_agent_id" \in call.result.keys) =>
        call.result.next_agent_id = FirstToAgent(Chosen, call.before)

\* C8: get_agent_transitions is sorted by priority descending, equal priorities
\* by transition id ascending.
C8_SortedByPriorityThenId ==
    (call.op = "get_agent_transitions" /\ ~call.raised) =>
        \A i, j \in DOMAIN call.transitions :
            i < j =>
                \/ call.transitions[i].priority > call.transitions[j].priority
                \/ /\ call.transitions[i].priority = call.transitions[j].priority
                   /\ call.transitions[i].id < call.transitions[j].id

\* the business_rules transitions of agent a whose rule-set triggers
Triggering(a, ctx) == {i \in Outgoing(a) : Triggers(i, ctx)}

\* C9: when several rule-sets trigger, TransitionController.check_transitions
\* returns the result of the one of highest priority and names its transition id.
C9_HighestPriorityTransitionId ==
    (call.op \in {"controller_check", "clean_controller_check"} /\ ~call.raised) =>
        LET trig == Triggering(call.agent_id, call.before) IN
        \A i \in trig :
            (Cardinality(trig) >= 2
               /\ \A k \in trig \ {i} : Priority(k) < Priority(i)) =>
                /\ "transition_id" \in call.result.keys
                /\ call.result.transition_id = i

\* C10: TransitionController.check_transitions returns a next agent exactly when
\* the rule-set of some outgoing business_rules transition triggers.
C10_NextAgentIffTriggered ==
    (call.op \in {"controller_check", "clean_controller_check"} /\ ~call.raised) =>
        ("next_agent_id" \in call.result.keys
            <=> Triggering(call.agent_id, call.before) # {})

\* C10 witness: a rule-set of higher priority did not trigger and one after it did.
C10_Witness ==
    /\ call.op = "controller_check"
    /\ "next_agent_id" \in call.result.keys
    /\ \E i \in Outgoing(call.agent_id) :
          /\ Transition[i].condition_type = "business_rules"
          /\ HasRules(i)
          /\ ~Triggers(i, call.before)
          /\ Priority(i) > Priority(Chosen)

-----------------------------------------------------------------------------
(* Claims about the orchestrator (Spec) *)

Called == call.op = "check_and_execute_transition"

\* C3: a check_and_execute_transition call in which a step raised an exception
\* returned Error, and the context is what it was before the call.
C3_ExceptionLeavesStateUnchanged ==
    (Called /\ call.exception # "none") =>
        /\ call.outcome = "Error"
        /\ context = call.before

NoMatch(ctx) == \A i \in Outgoing(ctx.current_agent_id) : ~Matches(i, ctx)

\* C5: a call made where no outgoing transition matches returned NoTransition
\* and left the context, the controller and the emitted events as they were.
C5_NoMatchIsIdempotent ==
    (Called /\ NoMatch(call.before)) =>
        /\ call.outcome = "NoTransition"
        /\ context = call.before
        /\ controller = call.controller_before
        /\ emitted = call.emitted_before

-----------------------------------------------------------------------------
(* Claims about the threads (SpecConc) *)

\* the threads about to write the transition they picked
Committing == {t \in ThreadIds : threads[t].pc = "write"}

\* C2: calls of check_and_execute_transition exclude one another and events, so
\* a thread commits its transition to the context its check read: the agent it
\* leaves is the agent the target was picked for, under the user input the
\* check saw.
C2_CommitsWhatItChecked ==
    \A t \in Committing :
        /\ threads[t].current_agent_id = threads[t].seen.current_agent_id
        /\ context.user_input = threads[t].seen.user_input

-----------------------------------------------------------------------------
(* Claims about the event history (SpecEvents) *)

\* the events ingested so far, in ingestion order
Ingested == [n \in 1..steps |-> NumberedEvent(n)]

\* C11: context.events is the ingested events cut to the most recent 100, in
\* ingestion order: one entry per ingested event, oldest first.
C11_EventsAreLastIngested ==
    context.events = LastN(Ingested, EventHistoryCap)

-----------------------------------------------------------------------------
(* Claims about SessionContext (SpecContext) *)

\* the entry a call found under its key was past its time to live
PastTtl(c) ==
    /\ c.key \in DOMAIN c.pre
    /\ c.pre[c.key].has_ttl
    /\ c.time > c.pre[c.key].timestamp + c.pre[c.key].ttl

\* what get did: default and eviction past the ttl, the stored value and no
\* change up to it, and the default for a key that is not there
GetAsClaimed ==
    call.op = "get" =>
        IF call.key \notin DOMAIN call.pre
        THEN call.result = Default /\ data = call.pre
        ELSE IF PastTtl(call)
             THEN call.result = Default /\ call.key \notin DOMAIN data
             ELSE call.result = call.pre[call.key].value /\ data = call.pre

\* get_all and to_dict show no key that is not stored, and none past its ttl
ListingAsClaimed ==
    call.op \in {"get_all", "to_dict"} =>
        /\ DOMAIN call.result \subseteq DOMAIN data
        /\ \A k \in DOMAIN call.result :
              /\ call.result[k] = call.pre[k].value
              /\ ~(call.pre[k].has_ttl
                   /\ call.time > call.pre[k].timestamp + call.pre[k].ttl)

\* a key comes back only by set, and an entry without ttl leaves only by remove
ComesAndGoes ==
    \A k \in ContextKeys :
        /\ (k \notin DOMAIN data /\ k \in DOMAIN data')
              => (call'.op = "set" /\ call'.key = k)
        /\ (k \in DOMAIN data /\ ~data[k].has_ttl /\ k \notin DOMAIN data')
              => (call'.op = "remove" /\ call'.key = k)
        /\ (k \in DOMAIN data /\ ~data[k].has_ttl /\ call'.op = "get" /\ call'.key = k)
              => call'.result = data[k].value

\* C12: a get later than timestamp + ttl returns the default and evicts the
\* entry, whose key stays out of get_all and to_dict until it is set again; a
\* get not later than timestamp + ttl returns the stored value; an entry
\* without ttl never expires.
C12_TtlExpiry ==
    /\ [](GetAsClaimed /\ ListingAsClaimed)
    /\ [][ComesAndGoes]_vars

\* a get found its entry expired and evicted it
C12_Witness ==
    /\ call.op = "get"
    /\ PastTtl(call)
    /\ call.result = Default
    /\ call.key \notin DOMAIN data

-----------------------------------------------------------------------------
(* Claims about the SessionManager (SpecManager) *)

\* a call on an orchestrator, made by a thread that holds a reference to it,
\* has just been made
CalledOn(o) ==
    /\ steps' # steps
    /\ call'.op \in {"process_event", "check_and_execute_transition"}
    /\ call'.ref = o
    /\ UNCHANGED threads

\* C13: a process_event or check_and_execute_transition call that begins after
\* stop() has begun on the orchestrator changes neither its current agent nor
\* any entry of its context.
C13_StoppedRejectsCalls ==
    [][\A o \in DOMAIN orchs :
          (orchs[o].stop_begun /\ CalledOn(o))
             => /\ orchs'[o].context = orchs[o].context
                /\ orchs'[o].controller = orchs[o].controller]_vars

\* thread t passes the lock of the method fn in this step
Passes(t, fn) ==
    /\ threads[t].pc = "lock"
    /\ threads[t].fn = fn
    /\ threads'[t].pc # "lock"

\* thread t returns from the method op in this step
Returns(t, op) ==
    /\ threads[t].op = op
    /\ threads[t].pc # "idle"
    /\ threads'[t].pc = "idle"

Extended(reg, s, id) == [x \in DOMAIN reg \cup {s} |-> IF x = s THEN id ELSE reg[x]]

CreateAsClaimed(t) ==
    LET s == threads[t].session IN
    /\ (Passes(t, "create_session") /\ s \in DOMAIN registry)
          => /\ Returns(t, "create_session")
             /\ call'.returned = "orchestrator"
             /\ call'.ref = registry[s]
             /\ UNCHANGED <<registry, orchs>>
    /\ (Passes(t, "create_session") /\ s \notin DOMAIN registry
          /\ threads[t].conversation \in ConversationIds)
          => /\ Len(orchs') = Len(orchs) + 1
             /\ registry' = Extended(registry, s, Len(orchs'))
    /\ (Returns(t, "create_session") /\ call'.returned = "orchestrator")
          => /\ s \in DOMAIN registry'
             /\ registry'[s] = call'.ref
             /\ orchs'[call'.ref].running

\* an orchestrator is constructed only by a create_session that found its
\* session unregistered
ConstructedOnce ==
    Len(orchs') # Len(orchs)
       => \E t \in CallerIds :
             /\ Passes(t, "create_session")
             /\ threads[t].session \notin DOMAIN registry
             /\ Len(orchs') = Len(orchs) + 1

\* C14: create_session returns the registered orchestrator of a registered
\* session and constructs, starts and registers nothing; for an unregistered
\* session (of a conversation that exists) it registers one new orchestrator,
\* which is running when the call returns; no second orchestrator is ever
\* constructed for a registered session, whichever threads call.
C14_CreateSessionIdempotent ==
    [][ConstructedOnce /\ \A t \in CallerIds : CreateAsClaimed(t)]_vars

\* a create_session has returned the orchestrator another create_session made
C14_Witness ==
    /\ call.op = "create_session"
    /\ call.returned = "orchestrator"
    /\ call.found
    /\ Len(orchs) = 1
    /\ orchs[call.ref].running
    /\ registry[call.session] = call.ref

EndAsClaimed(t) ==
    LET s == threads[t].session
        o == threads[t].orch IN
    /\ (Passes(t, "end_session") /\ s \notin DOMAIN registry)
          => /\ Returns(t, "end_session")
             /\ call'.returned = "false"
             /\ UNCHANGED <<registry, orchs>>
    /\ (Passes(t, "end_session") /\ s \in DOMAIN registry)
          => ~Returns(t, "end_session")
    /\ (Returns(t, "end_session") /\ ~Passes(t, "end_session"))
          => /\ call'.returned = "true"
             /\ ~orchs'[o].running
             /\ ~orchs'[o].transition_check_thread
             /\ orchs'[o].loop \in {"exited", "call"}
             /\ s \notin DOMAIN registry'

C16_ShutdownTerminates ==
    \A t \in CallerIds :
        (threads[t].op = "shutdown") ~> (threads[t].op # "shutdown")

\* the steps of a manager method that are calls on an orchestrator
OrchestratorCallPcs ==
    {"start", "created_event", "ended_event", "stop", "join", "livekit_event"}

\* C17: no thread holds the registry lock while it is inside a call on an
\* orchestrator or waits for the orchestrator's loop thread.
C17_LockOnlyAroundRegistry ==
    \A t \in CallerIds : mlock = t => threads[t].pc \notin OrchestratorCallPcs

-----------------------------------------------------------------------------
(* Claims about the dispatch of one event (SpecDispatch) *)

\* every handler in registration order, each followed by its callbacks for the
\* type of the event in registration order
RECURSIVE AllInvocations(_, _)
AllInvocations(h, type) ==
    IF h > Len(Handlers) THEN <<>>
    ELSE <<Handlers[h]>> \o Callbacks(Handlers[h], type)
            \o AllInvocations(h + 1, type)

\* C18: whatever raises inside a handler or one of its callbacks, process_event
\* invokes every handler and every callback registered for the event, in
\* registration order, and no exception leaves process_event.
C18_DispatchIsolatesFaults ==
    call.op = "process_event" =>
        /\ ~call.propagated
        /\ call.invoked = AllInvocations(1, call.event.type)

\* the last entry of a list is e
EndsWith(seq, e) == Len(seq) > 0 /\ seq[Len(seq)] = e

\* C19: the transition check a user_message, tool_result or agent_message event
\* triggers reads a context that already holds the event in events and the
\* handler's own writes for it: user_input and the conversation entry, the
\* tool result, the assistant's conversation entry.
C19_CheckReadsHandledEvent ==
    (call.op = "process_event" /\ call.check_ran) =>
        LET e == call.event
            read == call.checked
        IN /\ e.type \in {"user_message", "tool_result", "agent_message"}
           /\ EndsWith(read.events, e)
           /\ e.type = "user_message" =>
                 /\ read.user_input = e.data.message
                 /\ EndsWith(read.conversation,
                             [role |-> "user", content |-> e.data.message])
           /\ e.type = "agent_message" =>
                 EndsWith(read.conversation,
                          [role |-> "assistant", content |-> e.data.message,
                           agent_id |-> e.data.agent_id])
           /\ e.type = "tool_result" =>
                 /\ read.last_tool_result = e.data.tool_result
                 /\ e.data.tool_name \in DOMAIN read.tool_results
                 /\ EndsWith(read.tool_results[e.data.tool_name],
                             e.data.tool_result)

\* a tool result was dispatched: the check that followed read the context with
\* the result and the three copies of the event the handlers had added
C19_Witness ==
    /\ call.op = "process_event"
    /\ call.check_ran
    /\ call.event.type = "tool_result"
    /\ call.checked.last_tool_result = call.event.data.tool_result
    /\ call.before.last_tool_result # call.event.data.tool_result
    /\ Len(call.checked.events) = Len(call.before.events) + 3

-----------------------------------------------------------------------------
(* Claims about malformed condition payloads (SpecMalformed) *)

RECURSIVE NamesUnknown(_)
NamesUnknown(conditions) ==
    IF "all" \in DOMAIN conditions
    THEN \E i \in DOMAIN conditions.all : NamesUnknown(conditions.all[i])
    ELSE IF "any" \in DOMAIN conditions
    THEN \E i \in DOMAIN conditions.any : NamesUnknown(conditions.any[i])
    ELSE condition_raises(conditions)

\* the transitions whose condition payload is malformed
MalformedRow(i) ==
    /\ Transition[i].condition_type = "user_input"
    /\ Transition[i].condition_data.pattern = NotAString
MalformedRules(i) ==
    /\ i \in DOMAIN BusinessRulesTransition
    /\ \E r \in DOMAIN BusinessRulesTransition[i] :
          NamesUnknown(BusinessRulesTransition[i][r].conditions)

\* the store with every malformed transition made one that never matches: the
\* pattern emptied, the rule-set taken away
SkippingRows ==
    [i \in DOMAIN Transition |->
        IF MalformedRow(i)
        THEN [Transition[i] EXCEPT !.condition_data = NoData]
        ELSE Transition[i]]
SkippingRules ==
    [i \in {j \in DOMAIN BusinessRulesTransition : ~MalformedRules(j)} |->
        BusinessRulesTransition[i]]

SomeMalformed ==
    \E i \in DOMAIN Transition :
        /\ Transition[i].source_agent_id = call.agent_id
        /\ MalformedRow(i) \/ MalformedRules(i)

\* what the three check_transitions return once the malformed are skipped
SkippingManager ==
    BusinessRulesCheckTransitions(SkippingRows, SkippingRules,
        BuildGraph(SkippingRows), call.agent_id, call.before).target
SkippingBase ==
    GraphCheckTransitions(BuildGraph(SkippingRows), call.agent_id,
                          call.before).target
SkippingController ==
    ControllerCheckTransitions(SkippingRows, SkippingRules, call.agent_id,
                               call.before).next_agent_id

\* C20: with a malformed transition among the outgoing ones and a sibling that
\* matches, check_transitions raises nothing and returns what it returns when
\* the malformed transitions are skipped: the first of the remaining ones that
\* matches.
C20_MalformedIsSkipped ==
    /\ (call.op = "check_transitions" /\ SomeMalformed /\ SkippingManager # None)
          => (~call.raised /\ call.target = SkippingManager)
    /\ (call.op = "graph_check" /\ SomeMalformed /\ SkippingBase # None)
          => (~call.raised /\ call.target = SkippingBase)
    /\ (call.op = "controller_check" /\ SomeMalformed /\ SkippingController # None)
          => (~call.result.raised
              /\ call.result.next_agent_id = SkippingController)

-----------------------------------------------------------------------------
(* Claims about building the graph (SpecBuild) *)

\* the conversation is missing, or its initial agent is none of its agents
InitialAgentAbsent(c) ==
    \/ c \notin DOMAIN Conversation
    \/ Conversation[c].initial_agent_id \notin Conversation[c].agents

\* C21: building the graph of a conversation fails with a not-found error
\* when the conversation does not exist or its initial agent is not among
\* the conversation's agents, and after a build that succeeded
\* get_initial_agent returns an agent that is a node of the graph.
C21_BuildFailsOrInitialIsNode ==
    /\ call.op = "build" /\ InitialAgentAbsent(call.conversation_id)
          => call.raised = "ValueError"
    /\ call.op = "get_initial_agent"
          => call.raised = "none" /\ call.agent \in call.manager.agents

-----------------------------------------------------------------------------
(* Claims about start() and stop() (SpecLifecycle) *)

\* C22: whatever start() and stop() calls were made on one orchestrator, a
\* stop() whose join ran out of time and a start() after it included, at
\* most one background check loop is live, and exactly one while the
\* orchestrator is running; start() on a running orchestrator spawns nothing
\* and stop() on one that is not running does nothing.
C22_OneLiveLoop ==
    /\ Cardinality(Live(loops)) <= 1
    /\ running => Cardinality(Live(loops)) = 1
    /\ call.op \in {"start", "stop"} /\ ~call.acted
          => Live(loops) \subseteq call.before

\* C23: once stop() has been called on a running orchestrator and start() is
\* not called again, the background loop ends, and a loop that has seen the
\* flag cleared makes no further check_and_execute_transition call; stop()
\* itself always returns.
C23_StopEndsLoop ==
    /\ <>[](~running) => <>[](Live(loops) = {})
    /\ [][\A i \in DOMAIN loops : loops[i].stopped => loops'[i] = loops[i]]_vars
    /\ (threads.pc = "join") ~> (threads.pc = "idle")

\* a stop() whose join ran out of time has returned and the loop it left
\* behind has ended since
C23_Witness ==
    /\ call.op = "stop" /\ call.acted /\ call.timed_out
    /\ ~running
    /\ loops # <<>>
    /\ \A i \in DOMAIN loops : loops[i].stopped

-----------------------------------------------------------------------------
(* Claims about sessions side by side (SpecManager) *)

\* the step leaves session s as it was: its registry entry, and its
\* orchestrator's context, current agent and running flag
Untouched(s) ==
    /\ s \in DOMAIN registry'
    /\ registry'[s] = registry[s]
    /\ orchs'[registry[s]].context = orchs[registry[s]].context
    /\ orchs'[registry[s]].controller = orchs[registry[s]].controller
    /\ orchs'[registry[s]].running = orchs[registry[s]].running

\* the step is one of another session than s: of a manager call for it, of
\* its background loop, or of a call made straight on its orchestrator
ActsOnOther(s) ==
    \/ \E t \in CallerIds :
          /\ threads[t].session \notin {s, ""}
          /\ threads[t].op \in {"create_session", "end_session",
                                "process_livekit_event"}
          /\ CallerStep(t)
    \/ \E o \in DOMAIN orchs : o # registry[s] /\ LoopStep(o)
    \/ \E t \in CallerIds :
          /\ threads[t].ref \notin {0, registry[s]}
          /\ DirectProcessEvent(t, <<"c">>) \/ DirectCheck(t)

\* C24: for two different sessions of one SessionManager, an event ingested
\* into one, a transition of one, a failure in one or the end of one leaves
\* the other's context, current agent, running flag and registry entry
\* as they were.
C24_SessionsIsolated ==
    [][\A s \in DOMAIN registry : ActsOnOther(s) => Untouched(s)]_vars

\* two sessions are registered and an event has been ingested into one
C24_Witness ==
    /\ DOMAIN registry = SessionIds
    /\ call.op = "process_livekit_event" /\ call.found
    /\ orchs[registry["s1"]].context.events # orchs[registry["s2"]].context.events

-----------------------------------------------------------------------------
(* Claims about the context updates of a rule-set (SpecGraph) *)

\* the triggering transition the controller reaches first: the sort is by
\* priority, descending and stable, over the rows in id order
Winner(a, ctx) ==
    CHOOSE i \in Triggering(a, ctx) :
        \A k \in Triggering(a, ctx) \ {i} :
            \/ Priority(k) < Priority(i)
            \/ Priority(k) = Priority(i) /\ i < k

\* the set_context_value actions the triggering rule of transition i ran, each
\* key with the value it was last given
Recorded(i, ctx) ==
    LET acts == ActionsOf(i, FirstSatisfied(i, ctx)) IN
    {j \in DOMAIN acts :
        /\ acts[j].name = "set_context_value"
        /\ \A l \in DOMAIN acts :
              (l > j /\ acts[l].name = "set_context_value")
                  => acts[l].key # acts[j].key}

\* C25: when a rules transition matches and the actions it ran recorded
\* set_context_value updates, every such key and value is in the context by
\* the time check_transitions returns the target; when check_transitions
\* returns no target, no update of a rule has been applied to the context.
C25_UpdatesMergedBeforeReturn ==
    (call.op = "check_transitions" /\ ~call.raised) =>
        /\ Triggering(call.agent_id, call.before) # {} =>
              LET i == Winner(call.agent_id, call.before)
                  acts == ActionsOf(i, FirstSatisfied(i, call.before))
              IN /\ call.target # None
                 /\ \A j \in Recorded(i, call.before) :
                       context.extra[acts[j].key] = acts[j].value
        /\ call.target = None => context = call.before

\* a rule-set that sets a context value and names an agent has triggered
C25_Witness ==
    /\ call.op = "check_transitions" /\ ~call.raised
    /\ call.target # None
    /\ Triggering(call.agent_id, call.before) # {}
    /\ Recorded(Winner(call.agent_id, call.before), call.before) # {}
    /\ context # call.before

-----------------------------------------------------------------------------
(* Claims about the condition kinds (SpecCondition) *)

Checked(kind) ==
    /\ call.op = "check_condition"
    /\ call.condition.condition_type = kind

\* C26: an event condition matches exactly when context.events holds an event
\* whose type is event_type and whose data has every key of event_data with
\* an equal value; an empty event_data matches any event of the type.
C26_EventDataSuperset ==
    Checked("event") =>
        /\ ~call.raised
        /\ call.result <=>
              \E e \in DOMAIN call.before.events :
                  EventDataMatches(call.before.events[e],
                                   call.condition.condition_data.event_type,
                                   call.condition.condition_data.event_data)

\* what a condition of the last call looked up is not in the context
LookedUpAbsent ==
    LET d == call.condition.condition_data
        ctx == call.before
    IN \/ /\ Checked("tool_result")
          /\ \/ str(d.tool_id) \notin DOMAIN ctx.tool_results
             \/ ~InList(d.result_key, ctx.tool_results[str(d.tool_id)])
       \/ Checked("user_input") /\ ctx.user_input = Absent
       \/ Checked("agent_decision") /\ d.decision_key \notin DOMAIN ctx.agent_decisions

\* C27: for the kinds tool_result, user_input and agent_decision a condition
\* whose looked-up data is absent (no tool_results entry for the tool, no
\* result_key in it, no user_input, no agent_decisions entry for the key)
\* does not match and does not raise; a user_input condition otherwise
\* matches exactly when the pattern is a substring of context.user_input,
\* letter case aside.
C27_AbsentIsNoMatch ==
    /\ LookedUpAbsent => ~call.result /\ ~call.raised
    /\ Checked("user_input") /\ call.before.user_input # Absent =>
          (call.result <=>
              StrIn(lower(call.condition.condition_data.pattern),
                    lower(call.before.user_input)))

-----------------------------------------------------------------------------
(* Claims about the target of a transition (SpecTargets) *)

TargetVanished ==
    /\ Called
    /\ ~call.raised
    /\ call.target # None
    /\ call.target \notin AgentIds

\* C29: when the target selected by check_transitions is not in the Agent table
\* at commit time, check_and_execute_transition returns Error and
\* current_agent_id, previous_agent_id and the context are what they were
\* before the check (the loop, which ignores the returned value, checks again
\* on its next pass).
C29_VanishedTargetKeepsState ==
    TargetVanished =>
        /\ call.outcome = "Error"
        /\ controller = call.controller_before
        /\ emitted = call.emitted_before
        /\ context = call.before

-----------------------------------------------------------------------------
(* Claims about the rule-set store (SpecStore) *)

\* the rule-sets the table holds for transition t
Stored(table, t) ==
    {table[i].rules_definition :
        i \in {j \in DOMAIN table : table[j].transition_id = t}}

RowsOf(table, t) == {i \in DOMAIN table : table[i].transition_id = t}

\* C30: the table behaves like a map from transition id to rule-set: it never
\* holds two rows of one transition; a create on an existing transition leaves
\* exactly the given definition stored for it and the transition with
\* condition_type business_rules; a create on a missing transition raises and
\* stores nothing; a get returns what is stored (nothing if nothing is) and
\* changes nothing; a delete leaves nothing stored for the transition and
\* returns true exactly when something was; no call touches what is stored for
\* another transition.
C30_StoreIsMap ==
    /\ [](\A t \in 1..MissingTransitionId :
             Cardinality(RowsOf(BusinessRulesTransition, t)) <= 1)
    /\ [][steps' # steps =>
            LET t == call'.transition_id
                before == BusinessRulesTransition
                after == BusinessRulesTransition'
            IN /\ \A u \in (1..MissingTransitionId) \ {t} :
                     Stored(after, u) = Stored(before, u)
               /\ (call'.op = "create" /\ t \in DOMAIN Transition) =>
                     /\ ~call'.raised
                     /\ Stored(after, t) = {call'.rules_definition}
                     /\ call'.returned.rules_definition = call'.rules_definition
                     /\ Transition'[t].condition_type = "business_rules"
               /\ (call'.op = "create" /\ t \notin DOMAIN Transition) =>
                     /\ call'.raised
                     /\ after = before
                     /\ Transition' = Transition
               /\ call'.op = "get" =>
                     /\ after = before
                     /\ Stored(before, t) = {} => call'.returned = NoRow
                     /\ Stored(before, t) # {} =>
                           /\ call'.returned # NoRow
                           /\ Stored(before, t) =
                                 {call'.returned.rules_definition}
               /\ call'.op = "delete" =>
                     /\ Stored(after, t) = {}
                     /\ call'.returned <=> Stored(before, t) # {}]_vars

\* a create replaced the definition an earlier create had stored for the
\* transition, while another transition's rule-set stayed
C30_Witness ==
    /\ call.op = "create"
    /\ ~call.raised
    /\ Stored(call.before, call.transition_id) # {}
    /\ Stored(call.before, call.transition_id) # {call.rules_definition}
    /\ Stored(BusinessRulesTransition, call.transition_id) =
          {call.rules_definition}
    /\ Len(BusinessRulesTransition) = 2

\* C31: clear(scope) takes out exactly the entries of that scope and leaves
\* every other entry as it was, value, scope, timestamp, ttl and metadata;
\* clear() without a scope takes out every entry; remove(key) returns true and
\* takes out only that key when it is stored, and returns false and changes
\* nothing when it is not.
C31_ClearAndRemoveFrame ==
    /\ (call.op = "clear" /\ call.scope # AnyScope) =>
          /\ DOMAIN data =
                {k \in DOMAIN call.pre : call.pre[k].scope # call.scope}
          /\ \A k \in DOMAIN data : data[k] = call.pre[k]
    /\ (call.op = "clear" /\ call.scope = AnyScope) => DOMAIN data = {}
    /\ (call.op = "remove" /\ call.key \in DOMAIN call.pre) =>
          /\ call.result = TRUE
          /\ DOMAIN data = DOMAIN call.pre \ {call.key}
          /\ \A k \in DOMAIN data : data[k] = call.pre[k]
    /\ (call.op = "remove" /\ call.key \notin DOMAIN call.pre) =>
          /\ call.result = FALSE
          /\ data = call.pre

\* a clear of one scope took an entry out and left one of the other scope, an
\* entry with metadata that is past its time to live
C31_Witness ==
    /\ call.op = "clear"
    /\ call.scope = "user"
    /\ DOMAIN call.pre = ContextKeys
    /\ \E k \in DOMAIN data :
          /\ DOMAIN data = {k}
          /\ data[k].scope = "session"
          /\ data[k].metadata # NoMetadata
          /\ expired(data[k], now)

-----------------------------------------------------------------------------
(* Claims about what an event leaves in the context (Spec) *)

\* C32: an event delivered through process_event adds exactly one entry to
\* context.events, whatever the number of handlers registered with the event
\* manager.
C32_OneEntryPerEvent ==
    (call.op = "process_event" /\ call.via = "agent_started") =>
        Len(context.events) = Len(call.before.events) + 1

\* C33: in every reachable state, whatever events were ingested (AGENT_STARTED
\* among them) and whatever transitions were executed (rule actions naming any
\* agent id among them), context.current_agent_id is a node of the
\* conversation's graph and is the controller's current_agent_id.
C33_CurrentAgentIsNodeAndControllers ==
    /\ context.current_agent_id \in MemberIds
    /\ context.current_agent_id = controller.current_agent_id

-----------------------------------------------------------------------------
(* Claims about the built graph (SpecGraph) *)

\* C34: get_agent_transitions(a) returns one entry per stored transition whose
\* source is a and whose target is a member agent; two transitions with the
\* same source and the same target are both returned.
C34_EveryStoredTransitionKept ==
    (call.op = "get_agent_transitions" /\ ~call.raised) =>
        /\ {call.transitions[n].id : n \in DOMAIN call.transitions} =
              {i \in Outgoing(call.agent_id) :
                  Transition[i].target_agent_id \in MemberIds}
        /\ \A m, n \in DOMAIN call.transitions :
              call.transitions[m].id = call.transitions[n].id => m = n

-----------------------------------------------------------------------------
(* Claims about Livekit events (SpecLivekit) *)

\* C35: a Livekit event message:received, or tool:result, handed to
\* process_livekit_event updates the context keys the equivalent USER_MESSAGE,
\* or TOOL_RESULT, event updates through process_event (user_input,
\* turn_count, conversation; tool_results), adds one entry to context.events
\* and triggers a transition check.
C35_LivekitAsProcessEvent ==
    call.op = "process_livekit_event" =>
        /\ Len(context.events) = Len(call.before.events) + 1
        /\ call.check_ran
        /\ call.event.type = "user_message" =>
              /\ call.checked.user_input = call.event.data.message
              /\ call.checked.turn_count = call.before.turn_count + 1
              /\ call.checked.conversation =
                    Append(call.before.conversation,
                           [role |-> "user",
                            content |-> call.event.data.message])
        /\ call.event.type = "tool_result" =>
              /\ call.event.data.tool_name \in DOMAIN call.checked.tool_results
              /\ call.checked.last_tool_result = call.event.data.tool_result

-----------------------------------------------------------------------------
(* Claims about the updates a controller check returns (SpecGraph) *)

\* the value the triggering rule of transition i last gave key k, NoValue if
\* it set none
UpdateOf(i, k, ctx) ==
    LET acts == ActionsOf(i, FirstSatisfied(i, ctx))
        js == {j \in Recorded(i, ctx) : acts[j].key = k}
    IN IF js = {} THEN NoValue ELSE acts[CHOOSE j \in js : TRUE].value

\* C36: the context_updates TransitionController.check_transitions returns are
\* the set_context_value updates of the rule-set of the transition that set
\* next_agent_id, and none of a rule-set evaluated earlier in the call that
\* fired without naming a target.
C36_OnlyUpdatesOfChosen ==
    (call.op = "controller_check" /\ ~call.raised
       /\ "next_agent_id" \in call.result.keys) =>
        \A k \in CtxKeys :
            call.result.context_updates[k] = UpdateOf(Chosen, k, call.before)

-----------------------------------------------------------------------------
(* Claims about how long a user message acts (Spec) *)

\* C37: a user message causes at most one transition: when the check that a
\* USER_MESSAGE triggered has transitioned, the check that follows it with no
\* new user message in between (a tick of the periodic loop) does not
\* transition again.
C37_OneTransitionPerMessage ==
    [][(/\ Called
        /\ call.via = "user_message"
        /\ call.outcome = "Success"
        /\ steps' # steps
        /\ call'.op = "check_and_execute_transition"
        /\ call'.via = "direct") => call'.outcome # "Success"]_vars

\* C38: once a TOOL_RESULT event of a tool with the result {k: v} has been
\* dispatched, a tool_result condition on that tool with result_key k,
\* operator eq and expected_value v matches at the next check, and its
\* evaluation does not raise.
C38_StoredShapeIsReadShape ==
    LET d == call.condition.condition_data
        results == call.before.tool_results
    IN (/\ Checked("tool_result")
        /\ str(d.tool_id) \in DOMAIN results
        /\ results[str(d.tool_id)][Len(results[str(d.tool_id)])]
              = Dict(d.result_key, d.expected_value)
        /\ d.operator = "eq")
       => call.result /\ ~call.raised

-----------------------------------------------------------------------------
(* Claims about a create_session that fails (SpecCreate) *)

\* no orchestrator can be constructed for conversation c: it is not in the
\* store, or its initial agent is not among its agents
CannotConstruct(c) ==
    \/ c \notin DOMAIN Conversation
    \/ Conversation[c].initial_agent_id
          \notin (Conversation[c].agents \cap AgentIds)

\* C39: a create_session for an unregistered session whose orchestrator
\* cannot be constructed (conversation not found, initial agent missing)
\* reports the error to the caller, leaves the registry and the orchestrators
\* as they were, releases the lock, and the thread is free for its next call;
\* a create_session, get_orchestrator or end_session that comes after it
\* passes the lock.
C39_FailedCreateLeavesNoTrace ==
    [][\A t \in CallerIds :
          /\ (/\ Passes(t, "create_session")
              /\ threads[t].session \notin DOMAIN registry
              /\ CannotConstruct(threads[t].conversation))
                => /\ Returns(t, "create_session")
                   /\ call'.returned \in {"ValueError", "AttributeError"}
                   /\ UNCHANGED <<registry, orchs>>
                   /\ mlock' = "free"
                   /\ threads'[t].pc = "idle"
          /\ (/\ call.op = "create_session"
              /\ call.returned \in {"ValueError", "AttributeError"}
              /\ threads[t].pc = "lock"
              /\ threads[t].fn \in {"create_session", "get_orchestrator",
                                    "end_session"}
              /\ mlock = "free")
                => ENABLED CallerStep(t)]_vars

\* a create_session has failed on the conversation whose initial agent is no
\* member, and the create_session of another thread has passed the lock since
C39_Witness ==
    /\ call.op = "create_session"
    /\ call.returned = "AttributeError"
    /\ threads[call.thread].pc = "idle"
    /\ mlock # "free"
    /\ \E t \in CallerIds : threads[t].pc = "start"

====
